---- MODULE Spec2Model ----
(***************************************************************************)
(* State-machine model of the STUN message builder (stun/stunsend.c), the  *)
(* HMAC wrapper (stun/hmac.c) and the transaction-ID source.               *)
(*                                                                         *)
(* A message buffer is modelled as its 20 header bytes plus the list of    *)
(* attributes that stun_append laid out behind them: for every attribute   *)
(* the offset of its TLV header, the 16-bit type and length written there, *)
(* the number of padding bytes and what the payload slot holds.            *)
(***************************************************************************)
EXTENDS Integers, Naturals, Sequences, FiniteSets, TLC

(***************************************************************************)
(* Bounds of the model.                                                    *)
(***************************************************************************)
MaxAttrs == 2      \* attributes a caller appends to one message
MaxIds == 1        \* init_request calls in the single-threaded builder
NThreads == 2      \* threads calling init_request concurrently
MaxCalls == 1      \* init_request calls of one thread
MaxStrLen == 7      \* characters of a string given to set_ipv4_from_string

(***************************************************************************)
(* Program constants.                                                      *)
(***************************************************************************)
STUN_MAXMSG == 65515
ENOBUFS == 105
STUN_REQUEST == 0
STUN_RESPONSE == 2
STUN_ERROR == 3
EINVAL == 22
EAFNOSUPPORT == 97
AF_INET == 2
AF_INET6 == 10
SizeofSockaddr == 16       \* sizeof (struct sockaddr)
SizeofSockaddrIn == 16     \* sizeof (struct sockaddr_in)
SizeofSockaddrIn6 == 28    \* sizeof (struct sockaddr_in6)

\* An optional pointer argument: NULL, or a pointer to len bytes.
NULL == [null |-> TRUE, len |-> 0]
Ptr(n) == [null |-> FALSE, len |-> n]

STUN_REALM == "REALM"
STUN_USERNAME == "USERNAME"
STUN_NONCE == "NONCE"
STUN_MESSAGE_INTEGRITY == "MESSAGE-INTEGRITY"
STUN_FINGERPRINT == "FINGERPRINT"
STUN_ERROR_CODE == "ERROR-CODE"

\* The error codes of stun-msg.h.
STUN_TRY_ALTERNATE == 300
STUN_BAD_REQUEST == 400
STUN_UNAUTHORIZED == 401
STUN_UNKNOWN_ATTRIBUTE == 420
STUN_STALE_CREDENTIALS == 430
STUN_INTEGRITY_CHECK_FAILURE == 431
STUN_MISSING_USERNAME == 432
STUN_USE_TLS == 433
STUN_MISSING_REALM == 434
STUN_MISSING_NONCE == 435
STUN_UNKNOWN_USERNAME == 436
STUN_STALE_NONCE == 438
STUN_ROLE_CONFLICT == 487
STUN_SERVER_ERROR == 500
STUN_GLOBAL_FAILURE == 600

(***************************************************************************)
(* Inputs.                                                                 *)
(***************************************************************************)
Bufs == {1}
BufSizes == {29, 70000}
Methods == {4095}
RecvMethods == {1, 4095}
RecvIds == {[i \in 0..11 |-> 160 + i]}
CallerTypes == {"PRIORITY"}
StrLens == {5, 65480}
OptArgs == {NULL, Ptr(5)}
Threads == 1..NThreads

(***************************************************************************)
(* C integer operators on naturals.                                        *)
(***************************************************************************)
RECURSIVE BitAnd(_, _)
BitAnd(x, y) ==
    IF x = 0 \/ y = 0 THEN 0
    ELSE (x % 2) * (y % 2) + 2 * BitAnd(x \div 2, y \div 2)

RECURSIVE BitOr(_, _)
BitOr(x, y) ==
    IF x = 0 THEN y
    ELSE IF y = 0 THEN x
    ELSE (IF x % 2 = 1 \/ y % 2 = 1 THEN 1 ELSE 0) + 2 * BitOr(x \div 2, y \div 2)

Shr(x, n) == x \div (2 ^ n)
Shl(x, n) == x * (2 ^ n)

(***************************************************************************)
(* stun-msg.h accessors.                                                   *)
(***************************************************************************)
stun_getw(h, off) == h[off] * 256 + h[off + 1]

stun_length(h) == stun_getw(h, 2)

stun_padding(l) == BitAnd(4 - BitAnd(l, 3), 3)

stun_get_class(h) ==
    LET t == stun_getw(h, 0)
    IN BitOr(Shr(BitAnd(t, 256), 7), Shr(BitAnd(t, 16), 4))

stun_get_method(h) ==
    LET t == stun_getw(h, 0)
    IN BitOr(BitOr(Shr(BitAnd(t, 15872), 2), Shr(BitAnd(t, 224), 1)), BitAnd(t, 15))

stun_id(h) == [i \in 0..11 |-> h[8 + i]]

(***************************************************************************)
(* stunsend.c: byte writers and header initialisation.                     *)
(***************************************************************************)
stun_setw(h, off, value) ==
    [h EXCEPT ![off] = Shr(value, 8) % 256, ![off + 1] = BitAnd(value, 255)]

\* The type bytes with the mask 0x3c for 0x3e, which drops bit 6 of the method.
TypeBytes_Mask3c(c, m) ==
    << BitOr(Shr(c, 1), BitAnd(Shr(m, 6), 60)),
       BitOr(BitOr(BitAnd(Shl(c, 4), 16), BitAnd(Shl(m, 1), 224)), BitAnd(m, 15)) >>

\* The two type bytes stun_set_type stores.
TypeBytes(c, m) ==
    << BitOr(Shr(c, 1), BitAnd(Shr(m, 6), 62)),
       BitOr(BitOr(BitAnd(Shl(c, 4), 16), BitAnd(Shl(m, 1), 224)), BitAnd(m, 15)) >>

\* stun_set_type: the header with the type bytes stored, and the assertion
\* that failed ("none" when all five hold).
stun_set_type(h, c, m) ==
    LET tb == TypeBytes(c, m)
        h1 == [h EXCEPT ![0] = tb[1] % 256, ![1] = tb[2] % 256]
    IN [hdr |-> h1,
        abort |-> IF ~(c < 4) \/ ~(m < 4096) THEN "set_type_args"
                  ELSE IF ~(stun_getw(h1, 0) < 16384) THEN "set_type_range"
                  ELSE IF stun_get_class(h1) # c THEN "set_type_class"
                  ELSE IF stun_get_method(h1) # m THEN "set_type_method"
                  ELSE "none"]

\* The 8 constant bytes stun_init copies first.
InitBytes == <<0, 0, 0, 0, 33, 18, 164, 66>>

\* stun_init (msg, c, m, id): `id' is the 12 bytes `idp' points to when the
\* memcpy runs; `same' says that idp == msg + 8.
stun_init(h, c, m, id, same) ==
    LET h0 == [i \in 0..19 |-> IF i < 8 THEN InitBytes[i + 1] ELSE h[i]]
        st == stun_set_type(h0, c, m)
        h2 == IF same THEN st.hdr
              ELSE [i \in 0..19 |-> IF i >= 8 THEN id[i - 8] ELSE st.hdr[i]]
    IN [hdr |-> h2, abort |-> st.abort]


(***************************************************************************)
(* stunsend.c: the append primitive.  A message m is [init, hdr, attrs].   *)
(* The result holds the pointer returned (0 is the null pointer, otherwise *)
(* the offset of the payload slot), the message afterwards, the byte       *)
(* ranges <<lo, hi>> (hi exclusive) the call wrote and the assertion that  *)
(* failed, if any.                                                         *)
(***************************************************************************)
Attr(type, length, off) ==
    [type |-> type, length |-> length % 65536, off |-> off,
     pad |-> stun_padding(length), padbyte |-> 32, payload |-> "stale"]

\* stun_append with the 4 bytes of the TLV header left out of the space check.
stun_append_NoTlvRoom(m, msize, type, length) ==
    LET mlen == stun_length(m.hdr)
        cap == IF msize > STUN_MAXMSG THEN STUN_MAXMSG ELSE msize
        a0 == 20 + mlen
        mlen1 == (mlen + 4 + length) % 65536
        mlen2 == (mlen1 + stun_padding(length)) % 65536
        padw == IF stun_padding(length) > 0
                THEN {<<a0 + 4 + length, a0 + 4 + length + stun_padding(length)>>}
                ELSE {}
    IN IF stun_padding(mlen) # 0
       THEN [ptr |-> 0, msg |-> m, wr |-> {}, abort |-> "append_padding"]
       ELSE IF mlen + 20 + length > cap
       THEN [ptr |-> 0, msg |-> m, wr |-> {}, abort |-> "none"]
       ELSE IF ~(length < 65535)
       THEN [ptr |-> 0, msg |-> m, wr |-> {}, abort |-> "append_length"]
       ELSE [ptr |-> a0 + 4,
             msg |-> [m EXCEPT !.hdr = stun_setw(@, 2, mlen2),
                               !.attrs = Append(@, Attr(type, length, a0))],
             wr |-> {<<a0, a0 + 4>>, <<2, 4>>} \cup padw,
             abort |-> "none"]

\* stun_append with the padding left out of the new header length.
stun_append_NoPadCount(m, msize, type, length) ==
    LET mlen == stun_length(m.hdr)
        cap == IF msize > STUN_MAXMSG THEN STUN_MAXMSG ELSE msize
        a0 == 20 + mlen
        mlen1 == (mlen + 4 + length) % 65536
        mlen2 == mlen1
        padw == IF stun_padding(length) > 0
                THEN {<<a0 + 4 + length, a0 + 4 + length + stun_padding(length)>>}
                ELSE {}
    IN IF stun_padding(mlen) # 0
       THEN [ptr |-> 0, msg |-> m, wr |-> {}, abort |-> "append_padding"]
       ELSE IF mlen + 24 + length > cap
       THEN [ptr |-> 0, msg |-> m, wr |-> {}, abort |-> "none"]
       ELSE IF ~(length < 65535)
       THEN [ptr |-> 0, msg |-> m, wr |-> {}, abort |-> "append_length"]
       ELSE [ptr |-> a0 + 4,
             msg |-> [m EXCEPT !.hdr = stun_setw(@, 2, mlen2),
                               !.attrs = Append(@, Attr(type, length, a0))],
             wr |-> {<<a0, a0 + 4>>, <<2, 4>>} \cup padw,
             abort |-> "none"]

\* stun_append without the cap of msize at STUN_MAXMSG.
stun_append_Uncapped(m, msize, type, length) ==
    LET mlen == stun_length(m.hdr)
        cap == msize
        a0 == 20 + mlen
        mlen1 == (mlen + 4 + length) % 65536
        mlen2 == (mlen1 + stun_padding(length)) % 65536
        padw == IF stun_padding(length) > 0
                THEN {<<a0 + 4 + length, a0 + 4 + length + stun_padding(length)>>}
                ELSE {}
    IN IF stun_padding(mlen) # 0
       THEN [ptr |-> 0, msg |-> m, wr |-> {}, abort |-> "append_padding"]
       ELSE IF mlen + 24 + length > cap
       THEN [ptr |-> 0, msg |-> m, wr |-> {}, abort |-> "none"]
       ELSE IF ~(length < 65535)
       THEN [ptr |-> 0, msg |-> m, wr |-> {}, abort |-> "append_length"]
       ELSE [ptr |-> a0 + 4,
             msg |-> [m EXCEPT !.hdr = stun_setw(@, 2, mlen2),
                               !.attrs = Append(@, Attr(type, length, a0))],
             wr |-> {<<a0, a0 + 4>>, <<2, 4>>} \cup padw,
             abort |-> "none"]

\* stun_append with the padding written at the start of the payload slot
\* (memset (a, ...) for memset (a + length, ...)).
stun_append_PadAtSlot(m, msize, type, length) ==
    LET mlen == stun_length(m.hdr)
        cap == IF msize > STUN_MAXMSG THEN STUN_MAXMSG ELSE msize
        a0 == 20 + mlen
        mlen1 == (mlen + 4 + length) % 65536
        mlen2 == (mlen1 + stun_padding(length)) % 65536
        padw == IF stun_padding(length) > 0
                THEN {<<a0 + 4, a0 + 4 + stun_padding(length)>>}
                ELSE {}
    IN IF stun_padding(mlen) # 0
       THEN [ptr |-> 0, msg |-> m, wr |-> {}, abort |-> "append_padding"]
       ELSE IF mlen + 24 + length > cap
       THEN [ptr |-> 0, msg |-> m, wr |-> {}, abort |-> "none"]
       ELSE IF ~(length < 65535)
       THEN [ptr |-> 0, msg |-> m, wr |-> {}, abort |-> "append_length"]
       ELSE [ptr |-> a0 + 4,
             msg |-> [m EXCEPT !.hdr = stun_setw(@, 2, mlen2),
                               !.attrs = Append(@, Attr(type, length, a0))],
             wr |-> {<<a0, a0 + 4>>, <<2, 4>>} \cup padw,
             abort |-> "none"]

stun_append(m, msize, type, length) ==
    LET mlen == stun_length(m.hdr)
        cap == IF msize > STUN_MAXMSG THEN STUN_MAXMSG ELSE msize
        a0 == 20 + mlen
        mlen1 == (mlen + 4 + length) % 65536
        mlen2 == (mlen1 + stun_padding(length)) % 65536
        padw == IF stun_padding(length) > 0
                THEN {<<a0 + 4 + length, a0 + 4 + length + stun_padding(length)>>}
                ELSE {}
    IN IF stun_padding(mlen) # 0
       THEN [ptr |-> 0, msg |-> m, wr |-> {}, abort |-> "append_padding"]
       ELSE IF mlen + 24 + length > cap
       THEN [ptr |-> 0, msg |-> m, wr |-> {}, abort |-> "none"]
       ELSE IF ~(length < 65535)
       THEN [ptr |-> 0, msg |-> m, wr |-> {}, abort |-> "append_length"]
       ELSE [ptr |-> a0 + 4,
             msg |-> [m EXCEPT !.hdr = stun_setw(@, 2, mlen2),
                               !.attrs = Append(@, Attr(type, length, a0))],
             wr |-> {<<a0, a0 + 4>>, <<2, 4>>} \cup padw,
             abort |-> "none"]

\* The message with the payload slot at offset ptr filled with `what'.
Fill(m, ptr, what) ==
    [m EXCEPT !.attrs = [i \in DOMAIN @ |->
        IF @[i].off + 4 = ptr THEN [@[i] EXCEPT !.payload = what] ELSE @[i]]]

stun_append_bytes(m, msize, type, len) ==
    LET r == stun_append(m, msize, type, len)
    IN IF r.abort # "none"
       THEN [ret |-> ENOBUFS, msg |-> r.msg, wr |-> r.wr, abort |-> r.abort]
       ELSE IF r.ptr = 0
       THEN [ret |-> ENOBUFS, msg |-> r.msg, wr |-> r.wr, abort |-> "none"]
       ELSE [ret |-> 0, msg |-> Fill(r.msg, r.ptr, "data"),
             wr |-> r.wr \cup (IF len > 0 THEN {<<r.ptr, r.ptr + len>>} ELSE {}),
             abort |-> "none"]

stun_append_flag(m, msize, type) == stun_append_bytes(m, msize, type, 0)

stun_append32(m, msize, type) == stun_append_bytes(m, msize, type, 4)

stun_append64(m, msize, type) == stun_append_bytes(m, msize, type, 8)

\* str stands for a nul-terminated string of strlen (str) = str.len bytes.
stun_append_string(m, msize, type, str) ==
    stun_append_bytes(m, msize, type, str.len)


(***************************************************************************)
(* stunsend.c: stun_append_addr.  addr is the socket address the caller    *)
(* passes, [family, port, s_addr, s6_addr], addrlen the length it states.  *)
(***************************************************************************)
\* ptr = stun_append (msg, msize, type, 4 + alen) and the four stores.
AddrAttr(m, msize, type, family, port, pa, alen) ==
    LET r == stun_append(m, msize, type, 4 + alen)
    IN IF r.abort # "none"
       THEN [ret |-> ENOBUFS, msg |-> r.msg, wr |-> r.wr, abort |-> r.abort]
       ELSE IF r.ptr = 0
       THEN [ret |-> ENOBUFS, msg |-> r.msg, wr |-> r.wr, abort |-> "none"]
       ELSE [ret |-> 0, msg |-> Fill(r.msg, r.ptr, <<0, family, port, pa>>),
             wr |-> r.wr \cup {<<r.ptr, r.ptr + 4 + alen>>}, abort |-> "none"]

\* stun_append_addr looking at the family before any length.
stun_append_addr_FamilyFirst(m, msize, type, addr, addrlen) ==
    IF addr.family = AF_INET
    THEN IF addrlen < SizeofSockaddrIn
         THEN [ret |-> EINVAL, msg |-> m, wr |-> {}, abort |-> "none"]
         ELSE AddrAttr(m, msize, type, 1, addr.port, addr.s_addr, 4)
    ELSE IF addr.family = AF_INET6
    THEN IF addrlen < SizeofSockaddrIn6
         THEN [ret |-> EINVAL, msg |-> m, wr |-> {}, abort |-> "none"]
         ELSE AddrAttr(m, msize, type, 2, addr.port, addr.s6_addr, 16)
    ELSE [ret |-> EAFNOSUPPORT, msg |-> m, wr |-> {}, abort |-> "none"]

stun_append_addr(m, msize, type, addr, addrlen) ==
    IF addrlen < SizeofSockaddr
    THEN [ret |-> EINVAL, msg |-> m, wr |-> {}, abort |-> "none"]
    ELSE IF addr.family = AF_INET
    THEN IF ~(addrlen >= SizeofSockaddrIn)
         THEN [ret |-> 0, msg |-> m, wr |-> {}, abort |-> "append_addr_length"]
         ELSE AddrAttr(m, msize, type, 1, addr.port, addr.s_addr, 4)
    ELSE IF addr.family = AF_INET6
    THEN IF addrlen < SizeofSockaddrIn6
         THEN [ret |-> EINVAL, msg |-> m, wr |-> {}, abort |-> "none"]
         ELSE AddrAttr(m, msize, type, 2, addr.port, addr.s6_addr, 16)
    ELSE [ret |-> EAFNOSUPPORT, msg |-> m, wr |-> {}, abort |-> "none"]

(***************************************************************************)
(* stunsend.c: stun_strerror, stun_append_error and stun_init_error.  A    *)
(* string is the sequence of its characters, without the terminating nul.  *)
(***************************************************************************)
\* The entries of tab[] before the terminating { 0, "" }.
ErrorTab ==
    <<
       [code |-> STUN_TRY_ALTERNATE,
        phrase |-> <<"T", "r", "y", " ", "a", "l", "t", "e", "r", "n", "a",
                    "t", "e", " ", "s", "e", "r", "v", "e", "r">>],
       [code |-> STUN_BAD_REQUEST,
        phrase |-> <<"B", "a", "d", " ", "r", "e", "q", "u", "e", "s", "t">>],
       [code |-> STUN_UNAUTHORIZED,
        phrase |-> <<"A", "u", "t", "h", "o", "r", "i", "z", "a", "t", "i",
                    "o", "n", " ", "r", "e", "q", "u", "i", "r", "e", "d">>],
       [code |-> STUN_UNKNOWN_ATTRIBUTE,
        phrase |-> <<"U", "n", "k", "n", "o", "w", "n", " ", "a", "t", "t",
                    "r", "i", "b", "u", "t", "e">>],
       [code |-> STUN_STALE_CREDENTIALS,
        phrase |-> <<"A", "u", "t", "h", "e", "n", "t", "i", "c", "a", "t",
                    "i", "o", "n", " ", "e", "x", "p", "i", "r", "e", "d">>],
       [code |-> STUN_INTEGRITY_CHECK_FAILURE,
        phrase |-> <<"I", "n", "c", "o", "r", "r", "e", "c", "t", " ", "u",
                    "s", "e", "r", "n", "a", "m", "e", "/", "p", "a", "s",
                    "s", "w", "o", "r", "d">>],
       [code |-> STUN_MISSING_USERNAME,
        phrase |-> <<"U", "s", "e", "r", "n", "a", "m", "e", " ", "r", "e",
                    "q", "u", "i", "r", "e", "d">>],
       [code |-> STUN_USE_TLS,
        phrase |-> <<"S", "e", "c", "u", "r", "e", " ", "c", "o", "n", "n",
                    "e", "c", "t", "i", "o", "n", " ", "r", "e", "q", "u",
                    "i", "r", "e", "d">>],
       [code |-> STUN_MISSING_REALM,
        phrase |-> <<"A", "u", "t", "h", "e", "n", "t", "i", "c", "a", "t",
                    "i", "o", "n", " ", "d", "o", "m", "a", "i", "n", " ",
                    "r", "e", "q", "u", "i", "r", "e", "d">>],
       [code |-> STUN_MISSING_NONCE,
        phrase |-> <<"A", "u", "t", "h", "e", "n", "t", "i", "c", "a", "t",
                    "i", "o", "n", " ", "t", "o", "k", "e", "n", " ", "m",
                    "i", "s", "s", "i", "n", "g">>],
       [code |-> STUN_UNKNOWN_USERNAME,
        phrase |-> <<"U", "n", "k", "n", "o", "w", "n", " ", "u", "s", "e",
                    "r", " ", "n", "a", "m", "e">>],
       [code |-> STUN_STALE_NONCE,
        phrase |-> <<"A", "u", "t", "h", "e", "n", "t", "i", "c", "a", "t",
                    "i", "o", "n", " ", "t", "o", "k", "e", "n", " ", "e",
                    "x", "p", "i", "r", "e", "d">>],
       [code |-> STUN_ROLE_CONFLICT,
        phrase |-> <<"R", "o", "l", "e", " ", "c", "o", "n", "f", "l", "i",
                    "c", "t">>],
       [code |-> STUN_SERVER_ERROR,
        phrase |-> <<"T", "e", "m", "p", "o", "r", "a", "r", "y", " ", "s",
                    "e", "r", "v", "e", "r", " ", "e", "r", "r", "o", "r">>],
       [code |-> STUN_GLOBAL_FAILURE,
        phrase |-> <<"U", "n", "r", "e", "c", "o", "v", "e", "r", "a", "b",
                    "l", "e", " ", "f", "a", "i", "l", "u", "r", "e">>]
    >>

UnknownError ==
    <<"U", "n", "k", "n", "o", "w", "n", " ", "e", "r", "r", "o", "r">>

\* for (i = 0; tab[i].phrase[0]; i++) if (tab[i].code == code) return ...
RECURSIVE StrerrorFrom(_, _)
StrerrorFrom(i, code) ==
    IF i > Len(ErrorTab) THEN UnknownError
    ELSE IF ErrorTab[i].code = code THEN ErrorTab[i].phrase
    ELSE StrerrorFrom(i + 1, code)

stun_strerror(code) == StrerrorFrom(1, code)

\* stun_append_error storing the remainder before the quotient.
stun_append_error_RemFirst(m, msize, code) ==
    LET str == stun_strerror(code)
        len == Len(str)
        quot == code \div 100
        rem == code % 100
        r == stun_append(m, msize, STUN_ERROR_CODE, 4 + len)
    IN IF r.abort # "none"
       THEN [ret |-> ENOBUFS, msg |-> r.msg, wr |-> r.wr, abort |-> r.abort]
       ELSE IF r.ptr = 0
       THEN [ret |-> ENOBUFS, msg |-> r.msg, wr |-> r.wr, abort |-> "none"]
       ELSE IF ~(quot <= 7)
       THEN [ret |-> 0, msg |-> Fill(r.msg, r.ptr, <<0, 0, "stale">>),
             wr |-> r.wr \cup {<<r.ptr, r.ptr + 2>>},
             abort |-> "append_error_class"]
       ELSE [ret |-> 0, msg |-> Fill(r.msg, r.ptr, <<0, 0, rem, quot>> \o str),
             wr |-> r.wr \cup {<<r.ptr, r.ptr + 4 + len>>}, abort |-> "none"]

\* code is a non-negative stun_error_t, so div (code, 100) is \div and %.
stun_append_error(m, msize, code) ==
    LET str == stun_strerror(code)
        len == Len(str)
        quot == code \div 100
        rem == code % 100
        r == stun_append(m, msize, STUN_ERROR_CODE, 4 + len)
    IN IF r.abort # "none"
       THEN [ret |-> ENOBUFS, msg |-> r.msg, wr |-> r.wr, abort |-> r.abort]
       ELSE IF r.ptr = 0
       THEN [ret |-> ENOBUFS, msg |-> r.msg, wr |-> r.wr, abort |-> "none"]
       ELSE IF ~(quot <= 7)
       THEN [ret |-> 0, msg |-> Fill(r.msg, r.ptr, <<0, 0, "stale">>),
             wr |-> r.wr \cup {<<r.ptr, r.ptr + 2>>},
             abort |-> "append_error_class"]
       ELSE [ret |-> 0, msg |-> Fill(r.msg, r.ptr, <<0, 0, quot, rem>> \o str),
             wr |-> r.wr \cup {<<r.ptr, r.ptr + 4 + len>>}, abort |-> "none"]

\* stun_init_error (ans, msize, req, err) on the message m in ans: the
\* method is read from req to build the argument, as in stun_init_response.
stun_init_error(m, msize, req, err, same) ==
    LET st == stun_init(m.hdr, STUN_ERROR, stun_get_method(req), stun_id(req), same)
        m1 == [init |-> TRUE, hdr |-> st.hdr, attrs |-> <<>>]
    IN IF st.abort # "none"
       THEN [ret |-> 0, msg |-> m1, wr |-> {}, abort |-> st.abort]
       ELSE stun_append_error(m1, msize, err)

(***************************************************************************)
(* hmac.c: stun_sha1 (msg, sha, key, keylen).  The HMAC is taken over the  *)
(* first mlen - 12 bytes of the message and stored in the 20 bytes at sha. *)
(* The event records the input length and what the slot at sha held when   *)
(* the HMAC was computed.                                                  *)
(***************************************************************************)
SlotAt(m, ptr) ==
    LET at == {i \in DOMAIN m.attrs : m.attrs[i].off + 4 = ptr}
    IN IF at = {} THEN "none" ELSE m.attrs[CHOOSE i \in at : TRUE].payload

\* stun_sha1 taking off the FINGERPRINT attribute only.
stun_sha1_Minus8(m, sha, key, keylen) ==
    LET mlen == stun_length(m.hdr)
    IN IF ~(mlen >= 32)
       THEN [msg |-> m, abort |-> "sha1_length", wr |-> {},
             ev |-> [e |-> "sha1", hl |-> mlen, from |-> 0, to |-> 0,
                     at |-> sha, slot |-> SlotAt(m, sha), keylen |-> keylen]]
       ELSE [msg |-> Fill(m, sha, "hmac"), abort |-> "none",
             wr |-> {<<sha, sha + 20>>},
             ev |-> [e |-> "sha1", hl |-> mlen, from |-> 0, to |-> mlen - 8,
                     at |-> sha, slot |-> SlotAt(m, sha), keylen |-> keylen]]

stun_sha1(m, sha, key, keylen) ==
    LET mlen == stun_length(m.hdr)
    IN IF ~(mlen >= 32)
       THEN [msg |-> m, abort |-> "sha1_length", wr |-> {},
             ev |-> [e |-> "sha1", hl |-> mlen, from |-> 0, to |-> 0,
                     at |-> sha, slot |-> SlotAt(m, sha), keylen |-> keylen]]
       ELSE [msg |-> Fill(m, sha, "hmac"), abort |-> "none",
             wr |-> {<<sha, sha + 20>>},
             ev |-> [e |-> "sha1", hl |-> mlen, from |-> 0, to |-> mlen - 12,
                     at |-> sha, slot |-> SlotAt(m, sha), keylen |-> keylen]]

\* stun_fingerprint (msg), of the parser: the CRC-32 of the message up to
\* the payload of its last attribute, FINGERPRINT.
\* The event records the message as it is when the CRC is computed (msg).
stun_fingerprint(m) ==
    [e |-> "crc", hl |-> stun_length(m.hdr), from |-> 0,
     to |-> 20 + stun_length(m.hdr) - 4, at |-> 0, slot |-> "none", keylen |-> 0,
     msg |-> m]

(***************************************************************************)
(* stunsend.c: stun_finish_long.  Its steps thread a record s: the message *)
(* so far, whether the function has returned (done) and with what (ret),   *)
(* the value of *plen, the events and the ranges written.                  *)
(***************************************************************************)
FinishStart(m, plen) ==
    [msg |-> m, done |-> FALSE, ret |-> ENOBUFS, plen |-> plen, sha |-> 0,
     crc |-> 0, ev |-> <<>>, wr |-> {}, abort |-> "none"]

\* if (arg != NULL) { val = stun_append_bytes (...); if (val) return val; }
FinishBytes(s, len, type, arg, arglen) ==
    IF s.done \/ arg.null THEN s
    ELSE LET r == stun_append_bytes(s.msg, len, type, arglen)
         IN [s EXCEPT !.msg = r.msg, !.ret = r.ret, !.abort = r.abort,
                      !.wr = @ \cup r.wr,
                      !.done = (r.ret # 0 \/ r.abort # "none")]

\* The reservation of MESSAGE-INTEGRITY with a 16-byte slot.
FinishReserveSha_Short(s, len, key) ==
    IF s.done \/ key.null THEN s
    ELSE LET r == stun_append(s.msg, len, STUN_MESSAGE_INTEGRITY, 16)
         IN [s EXCEPT !.msg = r.msg, !.sha = r.ptr, !.abort = r.abort,
                      !.wr = @ \cup r.wr,
                      !.ret = IF r.ptr = 0 THEN ENOBUFS ELSE @,
                      !.done = (r.ptr = 0 \/ r.abort # "none")]

\* if (key != NULL) { sha = stun_append (...); if (sha == NULL) return ENOBUFS; }
FinishReserveSha(s, len, key) ==
    IF s.done \/ key.null THEN s
    ELSE LET r == stun_append(s.msg, len, STUN_MESSAGE_INTEGRITY, 20)
         IN [s EXCEPT !.msg = r.msg, !.sha = r.ptr, !.abort = r.abort,
                      !.wr = @ \cup r.wr,
                      !.ret = IF r.ptr = 0 THEN ENOBUFS ELSE @,
                      !.done = (r.ptr = 0 \/ r.abort # "none")]

\* The reservation of FINGERPRINT checked against STUN_MAXMSG in place of
\* the declared size.
FinishReserveCrc_Uncapped(s, len) ==
    IF s.done THEN s
    ELSE LET r == stun_append(s.msg, STUN_MAXMSG, STUN_FINGERPRINT, 4)
         IN [s EXCEPT !.msg = r.msg, !.crc = r.ptr, !.abort = r.abort,
                      !.wr = @ \cup r.wr,
                      !.ret = IF r.ptr = 0 THEN ENOBUFS ELSE @,
                      !.done = (r.ptr = 0 \/ r.abort # "none")]

\* void *crc = stun_append (...); if (crc == NULL) return ENOBUFS;
FinishReserveCrc(s, len) ==
    IF s.done THEN s
    ELSE LET r == stun_append(s.msg, len, STUN_FINGERPRINT, 4)
         IN [s EXCEPT !.msg = r.msg, !.crc = r.ptr, !.abort = r.abort,
                      !.wr = @ \cup r.wr,
                      !.ret = IF r.ptr = 0 THEN ENOBUFS ELSE @,
                      !.done = (r.ptr = 0 \/ r.abort # "none")]

\* if (sha != NULL) stun_sha1 (msg, sha, key, keylen);
FinishSha(s, key, keylen) ==
    IF s.done \/ s.sha = 0 THEN s
    ELSE LET r == stun_sha1(s.msg, s.sha, key, keylen)
         IN [s EXCEPT !.msg = r.msg, !.abort = r.abort, !.wr = @ \cup r.wr,
                      !.ev = Append(@, r.ev), !.done = (r.abort # "none")]

\* The last step storing the length of the attributes alone in *plen.
FinishCrc_NoHeader(s) ==
    IF s.done THEN s
    ELSE [s EXCEPT !.msg = Fill(@, s.crc, "crc"),
                   !.ev = Append(@, stun_fingerprint(s.msg)),
                   !.wr = @ \cup {<<s.crc, s.crc + 4>>},
                   !.plen = stun_length(s.msg.hdr),
                   !.ret = 0, !.done = TRUE]

\* fpr = htonl (stun_fingerprint (msg)); memcpy (crc, &fpr, 4);
\* *plen = 20u + stun_length (msg); return 0;
FinishCrc(s) ==
    IF s.done THEN s
    ELSE [s EXCEPT !.msg = Fill(@, s.crc, "crc"),
                   !.ev = Append(@, stun_fingerprint(s.msg)),
                   !.wr = @ \cup {<<s.crc, s.crc + 4>>},
                   !.plen = 20 + stun_length(s.msg.hdr),
                   !.ret = 0, !.done = TRUE]

\* stun_finish_long appending USERNAME before REALM.
stun_finish_long_UserFirst(m, plen, realm, username, key, keylen, nonce, noncelen) ==
    LET len == plen
        s0 == FinishStart(m, plen)
        s1 == FinishBytes(s0, len, STUN_USERNAME, username, username.len)
        s2 == FinishBytes(s1, len, STUN_REALM, realm, realm.len)
        s3 == FinishBytes(s2, len, STUN_NONCE, nonce, noncelen)
        s4 == FinishReserveSha(s3, len, key)
        s5 == FinishReserveCrc(s4, len)
        s6 == FinishSha(s5, key, keylen)
    IN FinishCrc(s6)

\* stun_finish_long calling stun_sha1 before FINGERPRINT is reserved.
stun_finish_long_ShaEarly(m, plen, realm, username, key, keylen, nonce, noncelen) ==
    LET len == plen
        s0 == FinishStart(m, plen)
        s1 == FinishBytes(s0, len, STUN_REALM, realm, realm.len)
        s2 == FinishBytes(s1, len, STUN_USERNAME, username, username.len)
        s3 == FinishBytes(s2, len, STUN_NONCE, nonce, noncelen)
        s4 == FinishReserveSha(s3, len, key)
        s5 == FinishSha(s4, key, keylen)
        s6 == FinishReserveCrc(s5, len)
    IN FinishCrc(s6)

\* stun_finish_long computing and storing the fingerprint before stun_sha1
\* fills MESSAGE-INTEGRITY.
stun_finish_long_CrcFirst(m, plen, realm, username, key, keylen, nonce, noncelen) ==
    LET len == plen
        s0 == FinishStart(m, plen)
        s1 == FinishBytes(s0, len, STUN_REALM, realm, realm.len)
        s2 == FinishBytes(s1, len, STUN_USERNAME, username, username.len)
        s3 == FinishBytes(s2, len, STUN_NONCE, nonce, noncelen)
        s4 == FinishReserveSha(s3, len, key)
        s5 == FinishReserveCrc(s4, len)
        s6 == FinishCrc(s5)
        s7 == FinishSha([s6 EXCEPT !.done = FALSE], key, keylen)
    IN IF s5.done THEN s5 ELSE [s7 EXCEPT !.done = TRUE]

stun_finish_long(m, plen, realm, username, key, keylen, nonce, noncelen) ==
    LET len == plen
        s0 == FinishStart(m, plen)
        s1 == FinishBytes(s0, len, STUN_REALM, realm, realm.len)
        s2 == FinishBytes(s1, len, STUN_USERNAME, username, username.len)
        s3 == FinishBytes(s2, len, STUN_NONCE, nonce, noncelen)
        s4 == FinishReserveSha(s3, len, key)
        s5 == FinishReserveCrc(s4, len)
        s6 == FinishSha(s5, key, keylen)
    IN FinishCrc(s6)

\* stun_finish_short passing a key length of 0 for every password.
stun_finish_short_NoPasslen(m, plen, username, password, nonce, noncelen) ==
    stun_finish_long(m, plen, NULL, username, password, 0, nonce, noncelen)

stun_finish_short(m, plen, username, password, nonce, noncelen) ==
    LET passlen == IF ~password.null THEN password.len ELSE 0
    IN stun_finish_long(m, plen, NULL, username, password, passlen,
                        nonce, noncelen)

stun_finish(m, plen) == stun_finish_short(m, plen, NULL, NULL, NULL, 0)


(***************************************************************************)
(* stunsend.c: stun_make_transid.  store.counter is the uint64_t counter,  *)
(* kept as its 8 bytes, least significant first; store.lock is 0 or the    *)
(* thread that holds the mutex.                                            *)
(***************************************************************************)
RECURSIVE Inc64(_)
Inc64(c) ==
    IF c = <<>> THEN <<>>
    ELSE IF Head(c) < 255 THEN <<Head(c) + 1>> \o Tail(c)
    ELSE <<0>> \o Inc64(Tail(c))

Zero64 == [i \in 1..8 |-> 0]

\* The value of a counter that fits 16 bits, to bound the model.
Low16(c) == c[1] + 256 * c[2]

\* memset (id, 0, 4); memcpy (id + 4, &counter, 8): the counter's bytes in
\* the order the host stores them.
TransidBytes(counter, be) ==
    [i \in 0..11 |-> IF i < 4 THEN 0
                     ELSE IF be THEN counter[12 - i] ELSE counter[i - 3]]

(***************************************************************************)
(* address.c: the NiceAddress value.  A guint32 is kept as its 4 bytes,    *)
(* most significant first; the union of addr_ipv4 and addr_ipv6 is kept as *)
(* the 16 bytes of memory it occupies, u[0] at the lowest address.         *)
(***************************************************************************)
NICE_ADDRESS_TYPE_UNSET == "UNSET"
NICE_ADDRESS_TYPE_IPV4 == "IPV4"
NICE_ADDRESS_TYPE_IPV6 == "IPV6"

AddrIds == {1, 2}

Zero16Bytes == [i \in 0..15 |-> 0]

\* nice_address_new: g_slice_new0 gives zeroed memory, the type is unset.
NoAddress == [type |-> NICE_ADDRESS_TYPE_UNSET, u |-> Zero16Bytes, port |-> 0]

\* Storage for a socket address nobody has written yet.  set says that the
\* storage holds a socket address; family is sin_family, port the two bytes
\* of sin_port and s_addr, s6_addr the bytes of the address fields, all in
\* memory order.  copied and of record where the contents came from: the
\* NiceAddress that nice_address_copy_to_sockaddr was given, if any.
NoSockaddr == [set |-> FALSE, family |-> 0, port |-> <<0, 0>>,
               s_addr |-> <<0, 0, 0, 0>>, s6_addr |-> Zero16Bytes,
               copied |-> FALSE, of |-> NoAddress]

(***************************************************************************)
(* Integers in memory.  A guint32 value is the tuple of its four bytes,    *)
(* most significant first; a guint16 value is a number.  `be' says that    *)
(* the host stores integers most significant byte first.                   *)
(***************************************************************************)
Bswap32(v) == <<v[4], v[3], v[2], v[1]>>
Bswap16(p) == (p % 256) * 256 + (p \div 256)

\* The bytes of the value v in memory, and the value of the bytes m.
Store32(v, be) == IF be THEN v ELSE Bswap32(v)
Load32(m, be) == IF be THEN m ELSE Bswap32(m)
Store16(p, be) == IF be THEN <<p \div 256, p % 256>> ELSE <<p % 256, p \div 256>>
Load16(m, be) == IF be THEN m[1] * 256 + m[2] ELSE m[2] * 256 + m[1]

htonl(v, be) == IF be THEN v ELSE Bswap32(v)
ntohl(v, be) == IF be THEN v ELSE Bswap32(v)
htons(p, be) == IF be THEN p ELSE Bswap16(p)
ntohs(p, be) == IF be THEN p ELSE Bswap16(p)

\* The number val < 2^31 as a guint32 value.
U32(val) == <<(val \div 16777216) % 256, (val \div 65536) % 256,
              (val \div 256) % 256, val % 256>>

(***************************************************************************)
(* address.c.  A NiceAddress is [type, u, port]: u is the 16 bytes of the  *)
(* union of addr_ipv4 and addr_ipv6, addr_ipv4 being its first four bytes. *)
(***************************************************************************)
INET_ADDRSTRLEN == 16

addr_ipv4(a, be) == Load32(<<a.u[0], a.u[1], a.u[2], a.u[3]>>, be)

nice_address_set_ipv4(a, addr_ipv4_, be) ==
    [a EXCEPT !.type = NICE_ADDRESS_TYPE_IPV4,
              !.u = [i \in 0..15 |-> IF i < 4 THEN Store32(addr_ipv4_, be)[i + 1]
                                     ELSE @[i]]]

nice_address_set_ipv6(a, addr_ipv6_) ==
    [a EXCEPT !.type = NICE_ADDRESS_TYPE_IPV6, !.u = addr_ipv6_]

\* inet_aton (str, &iaddr) of the C library on a string of the characters
\* "1", "9", ".", "x" and " ": [ok, mem], mem the four bytes of iaddr.s_addr.
\* A number is read by strtoul with base 0, which is base 10 for a number
\* that does not start with "0"; a number of up to nine digits is below
\* 2^32, so the range checks of strtoul never fail.
DecDigits == <<"0", "1", "2", "3", "4", "5", "6", "7", "8", "9">>
IsDigit(c) == \E i \in 1..10 : DecDigits[i] = c
DigitVal(c) == (CHOOSE i \in 1..10 : DecDigits[i] = c) - 1
IsSpace(c) == c = " "
CharAt(str, p) == IF p > Len(str) THEN "NUL" ELSE str[p]

RECURSIVE NumEnd(_, _)
NumEnd(str, p) == IF IsDigit(CharAt(str, p)) THEN NumEnd(str, p + 1) ELSE p

RECURSIVE DecVal(_, _, _, _)
DecVal(str, p, q, acc) ==
    IF p >= q THEN acc ELSE DecVal(str, p + 1, q, acc * 10 + DigitVal(str[p]))

AtonFail == [ok |-> FALSE, mem |-> <<0, 0, 0, 0>>]

\* The largest last part behind n stored parts fits the 4 - n bytes left.
AtonFits(val, n) ==
    CASE n = 0 -> TRUE
      [] n = 1 -> val <= 16777215
      [] n = 2 -> val <= 65535
      [] OTHER -> val <= 255

RECURSIVE AtonFrom(_, _, _)
AtonFrom(str, p, parts) ==
    IF ~IsDigit(CharAt(str, p)) THEN AtonFail
    ELSE LET q == NumEnd(str, p)
             val == DecVal(str, p, q, 0)
             c == CharAt(str, q)
             n == Len(parts)
         IN IF c = "."
            THEN IF n > 2 \/ val > 255 THEN AtonFail
                 ELSE AtonFrom(str, q + 1, Append(parts, val))
            ELSE IF c # "NUL" /\ ~IsSpace(c) THEN AtonFail
            ELSE IF ~AtonFits(val, n) THEN AtonFail
            ELSE [ok |-> TRUE,
                  mem |-> [i \in 1..4 |->
                             IF i <= n THEN parts[i] ELSE U32(val)[i]]]

inet_aton(str) == AtonFrom(str, 1, <<>>)

\* nice_address_set_ipv4_from_string with the address set to the bytes the
\* parser gave in place of ntohl of the value read from them.
nice_address_set_ipv4_from_string_NoNtohl(a, str, be) ==
    LET r == inet_aton(str)
    IN IF r.ok
       THEN [ret |-> TRUE, addr |-> nice_address_set_ipv4(a, Load32(r.mem, be), be)]
       ELSE [ret |-> FALSE, addr |-> a]

nice_address_set_ipv4_from_string(a, str, be) ==
    LET r == inet_aton(str)
    IN IF r.ok
       THEN [ret |-> TRUE,
             addr |-> nice_address_set_ipv4(a, ntohl(Load32(r.mem, be), be), be)]
       ELSE [ret |-> FALSE, addr |-> a]

\* nice_address_set_from_sockaddr with the port taken without ntohs.
nice_address_set_from_sockaddr_NoNtohs(a, s, be) ==
    IF s.family = AF_INET
    THEN [addr |-> [nice_address_set_ipv4(a, ntohl(Load32(s.s_addr, be), be), be)
                       EXCEPT !.port = Load16(s.port, be)],
          abort |-> "none"]
    ELSE IF s.family = AF_INET6
    THEN [addr |-> [nice_address_set_ipv6(a, s.s6_addr)
                       EXCEPT !.port = Load16(s.port, be)],
          abort |-> "none"]
    ELSE [addr |-> a, abort |-> "set_from_sockaddr_family"]

nice_address_set_from_sockaddr(a, s, be) ==
    IF s.family = AF_INET
    THEN [addr |-> [nice_address_set_ipv4(a, ntohl(Load32(s.s_addr, be), be), be)
                       EXCEPT !.port = ntohs(Load16(s.port, be), be)],
          abort |-> "none"]
    ELSE IF s.family = AF_INET6
    THEN [addr |-> [nice_address_set_ipv6(a, s.s6_addr)
                       EXCEPT !.port = ntohs(Load16(s.port, be), be)],
          abort |-> "none"]
    ELSE [addr |-> a, abort |-> "set_from_sockaddr_family"]

nice_address_copy_to_sockaddr(a, s, be) ==
    IF a.type = NICE_ADDRESS_TYPE_IPV4
    THEN [sin |-> [s EXCEPT !.set = TRUE, !.family = AF_INET,
                            !.s_addr = Store32(htonl(addr_ipv4(a, be), be), be),
                            !.port = Store16(htons(a.port, be), be),
                            !.copied = TRUE, !.of = a],
          abort |-> "none"]
    ELSE IF a.type = NICE_ADDRESS_TYPE_IPV6
    THEN [sin |-> [s EXCEPT !.set = TRUE, !.family = AF_INET6,
                            !.s6_addr = a.u,
                            !.port = Store16(htons(a.port, be), be),
                            !.copied = TRUE, !.of = a],
          abort |-> "none"]
    ELSE [sin |-> s, abort |-> "copy_to_sockaddr_type"]

nice_address_equal(a, b, be) ==
    IF a.type # b.type THEN [ret |-> FALSE, abort |-> "none"]
    ELSE IF a.type = NICE_ADDRESS_TYPE_IPV4
    THEN [ret |-> addr_ipv4(a, be) = addr_ipv4(b, be) /\ a.port = b.port,
          abort |-> "none"]
    ELSE IF a.type = NICE_ADDRESS_TYPE_IPV6
    THEN [ret |-> (\A i \in 0..(INET_ADDRSTRLEN - 1) : a.u[i] = b.u[i])
                  /\ a.port = b.port,
          abort |-> "none"]
    ELSE [ret |-> FALSE, abort |-> "equal_type"]

\* v & mask == want on guint32 values.
MaskIs(v, mask, want) == \A i \in 1..4 : BitAnd(v[i], mask[i]) = want[i]

\* ipv4_address_is_private with the mask 0xffff0000 on the second range,
\* which takes 172.16.0.0/16 for 172.16.0.0/12.
ipv4_address_is_private_Mask16(addr) ==
    \/ MaskIs(addr, <<255, 0, 0, 0>>, <<10, 0, 0, 0>>)
    \/ MaskIs(addr, <<255, 255, 0, 0>>, <<172, 16, 0, 0>>)
    \/ MaskIs(addr, <<255, 255, 0, 0>>, <<192, 168, 0, 0>>)
    \/ MaskIs(addr, <<255, 0, 0, 0>>, <<127, 0, 0, 0>>)

ipv4_address_is_private(addr) ==
    \/ MaskIs(addr, <<255, 0, 0, 0>>, <<10, 0, 0, 0>>)
    \/ MaskIs(addr, <<255, 240, 0, 0>>, <<172, 16, 0, 0>>)
    \/ MaskIs(addr, <<255, 255, 0, 0>>, <<192, 168, 0, 0>>)
    \/ MaskIs(addr, <<255, 0, 0, 0>>, <<127, 0, 0, 0>>)

nice_address_is_private(a, be) ==
    IF a.type = NICE_ADDRESS_TYPE_IPV4
    THEN [ret |-> ipv4_address_is_private(addr_ipv4(a, be)), abort |-> "none"]
    ELSE [ret |-> FALSE, abort |-> "is_private_type"]

(***************************************************************************)
(* State.                                                                  *)
(***************************************************************************)
VARIABLES
    msg,        \* msg[b]: the message in buffer b, [init, hdr, attrs]
    bufsize,    \* bufsize[b]: the declared size of buffer b
    store,      \* the static store of stun_make_transid: [lock, counter]
    hostBE,     \* whether the host stores integers most significant byte first
    abort,      \* the assertion that aborted the program, or "none"
    finished,   \* finished[b]: the message in buffer b has been finished
    call,       \* the last builder call: its arguments, result and effects
    tpc,        \* tpc[t]: where thread t is in stun_init_request
    tcounter,   \* tcounter[t]: the local `counter' of stun_make_transid
    tid,        \* tid[t]: the local `id' of stun_init_request
    treq,       \* treq[t]: the header of the request buffer of thread t
    tcalls,     \* tcalls[t]: completed stun_init_request calls of thread t
    acq,        \* the threads that took the mutex, in order, and what they read
    issued,     \* the transaction IDs the threads' calls produced, in order
    na,         \* na[i]: the NiceAddress object i
    sin         \* the socket address storage the address functions work on

vars == <<msg, bufsize, finished, store, hostBE, abort, call,
          tpc, tcounter, tid, treq, tcalls, acq, issued, na, sin>>

avars == <<na, sin>>

bvars == <<msg, bufsize, finished, call>>
tvars == <<tpc, tcounter, tid, treq, tcalls, acq, issued>>

ZeroHdr == [i \in 0..19 |-> 0]

NoFin == [realm |-> NULL, username |-> NULL, key |-> NULL, keylen |-> 0,
          nonce |-> NULL, noncelen |-> 0]

NoMsg == [init |-> FALSE, hdr |-> ZeroHdr, attrs |-> <<>>]

NoCall == [op |-> "none", b |-> 0, req |-> 0, ret |-> 0, msize |-> 0,
           plen |-> 0, len |-> 0, m0 |-> NoMsg, r0 |-> ZeroHdr, fin |-> NoFin,
           ev |-> <<>>, wr |-> {}]

Init ==
    /\ msg = [b \in Bufs |-> NoMsg]
    /\ bufsize \in [Bufs -> BufSizes]
    /\ finished = [b \in Bufs |-> FALSE]
    /\ store = [lock |-> 0, counter |-> Zero64]
    /\ hostBE = FALSE
    /\ abort = "none"
    /\ call = NoCall
    /\ tpc = [t \in Threads |-> "idle"]
    /\ tcounter = [t \in Threads |-> Zero64]
    /\ tid = [t \in Threads |-> [i \in 0..11 |-> 0]]
    /\ treq = [t \in Threads |-> ZeroHdr]
    /\ tcalls = [t \in Threads |-> 0]
    /\ acq = <<>>
    /\ issued = <<>>
    /\ na = [i \in AddrIds |-> NoAddress]
    /\ sin = NoSockaddr

(***************************************************************************)
(* The builder, driven by one caller.                                      *)
(***************************************************************************)
\* stun_init_request (req, m), with stun_make_transid run without interleaving.
InitRequest(b, m) ==
    /\ abort = "none"
    /\ Low16(store.counter) < MaxIds
    /\ LET id == TransidBytes(store.counter, hostBE)
           r == stun_init(msg[b].hdr, STUN_REQUEST, m, id, FALSE)
       IN /\ msg' = [msg EXCEPT ![b] = [init |-> TRUE, hdr |-> r.hdr, attrs |-> <<>>]]
          /\ abort' = r.abort
          /\ call' = [NoCall EXCEPT !.op = "init_request", !.b = b,
                                    !.len = m]
    /\ finished' = [finished EXCEPT ![b] = FALSE]
    /\ store' = [store EXCEPT !.counter = Inc64(@)]
    /\ UNCHANGED <<bufsize, hostBE, tvars, avars>>

\* stun_init_response reading the method once the type bytes of ans are
\* overwritten, which loses it when ans == req.
stun_init_response_LateRead(ans, req, same) ==
    IF stun_get_class(req) # STUN_REQUEST
    THEN [hdr |-> ans, abort |-> "init_response_class"]
    ELSE stun_init(ans, STUN_RESPONSE,
                   IF same THEN stun_get_method([req EXCEPT ![0] = 0, ![1] = 0])
                   ELSE stun_get_method(req),
                   stun_id(req), same)

\* stun_init_response (ans, req): the method is read from req to build the
\* argument, stun_id (req) points into req.
stun_init_response(ans, req, same) ==
    IF stun_get_class(req) # STUN_REQUEST
    THEN [hdr |-> ans, abort |-> "init_response_class"]
    ELSE stun_init(ans, STUN_RESPONSE, stun_get_method(req), stun_id(req), same)

\* The header of a message received from the network: class c, method m,
\* transaction ID id, and 8 bytes of attributes behind it.
RecvHdr(c, m, id) ==
    [i \in 0..19 |-> IF i < 2 THEN TypeBytes(c, m)[i + 1]
                     ELSE IF i < 4 THEN <<0, 8>>[i - 1]
                     ELSE IF i < 8 THEN InitBytes[i + 1]
                     ELSE id[i - 8]]

\* ans != req: the answer to a received request is built in buffer a.
InitResponse(a, m, id) ==
    /\ abort = "none"
    /\ LET req == RecvHdr(STUN_REQUEST, m, id)
           r == stun_init_response(msg[a].hdr, req, FALSE)
       IN /\ msg' = [msg EXCEPT ![a] =
                        IF r.abort = "init_response_class" THEN @
                        ELSE [init |-> TRUE, hdr |-> r.hdr, attrs |-> <<>>]]
          /\ abort' = r.abort
          /\ call' = [NoCall EXCEPT !.op = "init_response", !.b = a,
                                    !.r0 = req]
          /\ finished' = [finished EXCEPT ![a] =
                            IF r.abort = "init_response_class" THEN @ ELSE FALSE]
    /\ UNCHANGED <<bufsize, store, hostBE, tvars, avars>>

\* ans == req: the message in buffer q is answered in place.
InitResponseInPlace(q) ==
    /\ abort = "none"
    /\ msg[q].init
    /\ stun_get_class(msg[q].hdr) = STUN_REQUEST
    /\ LET a == q
           r == stun_init_response(msg[a].hdr, msg[q].hdr, TRUE)
       IN /\ msg' = [msg EXCEPT ![a] =
                        IF r.abort = "init_response_class" THEN @
                        ELSE [init |-> TRUE, hdr |-> r.hdr, attrs |-> <<>>]]
          /\ abort' = r.abort
          /\ call' = [NoCall EXCEPT !.op = "init_response", !.b = q, !.req = q,
                                    !.r0 = msg[q].hdr]
          /\ finished' = [finished EXCEPT ![q] =
                            IF r.abort = "init_response_class" THEN @ ELSE FALSE]
    /\ UNCHANGED <<bufsize, store, hostBE, tvars, avars>>

\* A typed appender called on buffer b with its declared size.
DoAppend(b, op, len, r) ==
    /\ msg' = [msg EXCEPT ![b] = r.msg]
    /\ abort' = r.abort
    /\ call' = [NoCall EXCEPT !.op = op, !.b = b, !.ret = r.ret,
                              !.msize = bufsize[b], !.len = len,
                              !.m0 = msg[b], !.wr = r.wr]
    /\ UNCHANGED <<bufsize, finished, store, hostBE, tvars, avars>>

CanAppend(b) ==
    /\ abort = "none"
    /\ msg[b].init
    /\ Len(msg[b].attrs) < MaxAttrs

AppendFlag(b, type) ==
    /\ CanAppend(b)
    /\ DoAppend(b, "append_flag", 0, stun_append_flag(msg[b], bufsize[b], type))

Append32(b, type) ==
    /\ CanAppend(b)
    /\ DoAppend(b, "append32", 4, stun_append32(msg[b], bufsize[b], type))

Append64(b, type) ==
    /\ CanAppend(b)
    /\ DoAppend(b, "append64", 8, stun_append64(msg[b], bufsize[b], type))

AppendString(b, type, n) ==
    /\ CanAppend(b)
    /\ DoAppend(b, "append_string", n,
                stun_append_string(msg[b], bufsize[b], type, Ptr(n)))

\* A finish call on buffer b; the caller passes *plen = the declared size,
\* and call.plen is *plen when the call has returned.  The three entry
\* points come to stun_finish_long, whose arguments call.fin records.
DoFinish(b, fin, s) ==
    /\ msg' = [msg EXCEPT ![b] = s.msg]
    /\ finished' = [finished EXCEPT ![b] = TRUE]
    /\ abort' = s.abort
    /\ call' = [NoCall EXCEPT !.op = "finish", !.b = b, !.ret = s.ret,
                              !.msize = bufsize[b], !.plen = s.plen,
                              !.m0 = msg[b],
                              !.fin = fin, !.ev = s.ev, !.wr = s.wr]
    /\ UNCHANGED <<bufsize, store, hostBE, tvars, avars>>

\* Finishing is the builder's last step on a message: it is finished once,
\* and the next init starts a new message in the buffer.
CanFinish(b) ==
    /\ abort = "none"
    /\ msg[b].init
    /\ ~finished[b]

FinishLong(b, realm, username, key, nonce) ==
    /\ CanFinish(b)
    /\ DoFinish(b,
                [realm |-> realm, username |-> username, key |-> key,
                 keylen |-> key.len, nonce |-> nonce, noncelen |-> nonce.len],
                stun_finish_long(msg[b], bufsize[b], realm, username,
                                 key, key.len, nonce, nonce.len))

FinishShort(b, username, password, nonce) ==
    /\ CanFinish(b)
    /\ DoFinish(b,
                [realm |-> NULL, username |-> username, key |-> password,
                 keylen |-> password.len, nonce |-> nonce,
                 noncelen |-> nonce.len],
                stun_finish_short(msg[b], bufsize[b], username, password,
                                  nonce, nonce.len))

Finish(b) ==
    /\ CanFinish(b)
    /\ DoFinish(b, NoFin, stun_finish(msg[b], bufsize[b]))

Next ==
    \/ \E b \in Bufs, m \in Methods : InitRequest(b, m)
    \/ \E a \in Bufs, m \in RecvMethods, id \in RecvIds :
          InitResponse(a, m, id)
    \/ \E q \in Bufs : InitResponseInPlace(q)
    \/ \E b \in Bufs, ty \in CallerTypes : AppendFlag(b, ty)
    \/ \E b \in Bufs, ty \in CallerTypes : Append32(b, ty)
    \/ \E b \in Bufs, ty \in CallerTypes : Append64(b, ty)
    \/ \E b \in Bufs, ty \in CallerTypes, n \in StrLens : AppendString(b, ty, n)
    \/ \E b \in Bufs, re \in OptArgs, us \in OptArgs, ke \in OptArgs, no \in OptArgs :
          FinishLong(b, re, us, ke, no)
    \/ \E b \in Bufs, us \in OptArgs, pw \in OptArgs, no \in OptArgs :
          FinishShort(b, us, pw, no)
    \/ \E b \in Bufs : Finish(b)

Spec == Init /\ [][Next]_vars
(***************************************************************************)
(* stun_init_request called by several threads, each on a buffer of its    *)
(* own.  The steps of stun_make_transid interleave.                        *)
(***************************************************************************)
\* A lock that never makes a thread wait.
MutexFree_NoWait(st) == TRUE

\* pthread_mutex_lock returns once the mutex is free.
MutexFree(st) == st.lock = 0

TLock(t) ==
    /\ tpc[t] = "idle"
    /\ tcalls[t] < MaxCalls
    /\ MutexFree(store)
    /\ store' = [store EXCEPT !.lock = t]
    /\ tpc' = [tpc EXCEPT ![t] = "locked"]
    /\ UNCHANGED <<bvars, hostBE, abort, tcounter, tid, treq, tcalls, acq, issued, avars>>

\* counter = store.counter++ : the read ...
TRead(t) ==
    /\ tpc[t] = "locked"
    /\ tcounter' = [tcounter EXCEPT ![t] = store.counter]
    /\ acq' = Append(acq, [t |-> t, counter |-> store.counter])
    /\ tpc' = [tpc EXCEPT ![t] = "read"]
    /\ UNCHANGED <<bvars, store, hostBE, abort, tid, treq, tcalls, issued, avars>>

\* ... and the store of the incremented value.
TIncr(t) ==
    /\ tpc[t] = "read"
    /\ store' = [store EXCEPT !.counter = Inc64(tcounter[t])]
    /\ tpc' = [tpc EXCEPT ![t] = "counted"]
    /\ UNCHANGED <<bvars, hostBE, abort, tcounter, tid, treq, tcalls, acq, issued, avars>>

TUnlock(t) ==
    /\ tpc[t] = "counted"
    /\ store' = [store EXCEPT !.lock = 0]
    /\ tpc' = [tpc EXCEPT ![t] = "unlocked"]
    /\ UNCHANGED <<bvars, hostBE, abort, tcounter, tid, treq, tcalls, acq, issued, avars>>

\* memset (id, 0, 4); memcpy (id + 4, &counter, 8);
TWriteId(t) ==
    /\ tpc[t] = "unlocked"
    /\ tid' = [tid EXCEPT ![t] = TransidBytes(tcounter[t], hostBE)]
    /\ tpc' = [tpc EXCEPT ![t] = "haveid"]
    /\ UNCHANGED <<bvars, store, hostBE, abort, tcounter, treq, tcalls, acq, issued, avars>>

\* stun_init (req, STUN_REQUEST, m, id);
TStunInit(t, m) ==
    /\ tpc[t] = "haveid"
    /\ LET r == stun_init(treq[t], STUN_REQUEST, m, tid[t], FALSE)
       IN /\ treq' = [treq EXCEPT ![t] = r.hdr]
          /\ abort' = r.abort
    /\ issued' = Append(issued, [t |-> t, id |-> tid[t]])
    /\ tcalls' = [tcalls EXCEPT ![t] = @ + 1]
    /\ tpc' = [tpc EXCEPT ![t] = "idle"]
    /\ UNCHANGED <<bvars, store, hostBE, tcounter, tid, acq, avars>>

InitThreads ==
    /\ msg = [b \in Bufs |-> NoMsg]
    /\ bufsize \in [Bufs -> BufSizes]
    /\ finished = [b \in Bufs |-> FALSE]
    /\ store = [lock |-> 0, counter |-> Zero64]
    /\ hostBE \in BOOLEAN
    /\ abort = "none"
    /\ call = NoCall
    /\ tpc = [t \in Threads |-> "idle"]
    /\ tcounter = [t \in Threads |-> Zero64]
    /\ tid = [t \in Threads |-> [i \in 0..11 |-> 0]]
    /\ treq = [t \in Threads |-> ZeroHdr]
    /\ tcalls = [t \in Threads |-> 0]
    /\ acq = <<>>
    /\ issued = <<>>
    /\ na = [i \in AddrIds |-> NoAddress]
    /\ sin = NoSockaddr

NextThreads ==
    \/ \E t \in Threads : TLock(t)
    \/ \E t \in Threads : TRead(t)
    \/ \E t \in Threads : TIncr(t)
    \/ \E t \in Threads : TUnlock(t)
    \/ \E t \in Threads : TWriteId(t)
    \/ \E t \in Threads, m \in Methods : TStunInit(t, m)

SpecThreads == InitThreads /\ [][NextThreads]_vars

(***************************************************************************)
(* Header initialisation as a function of the class and the method: one    *)
(* call on a fresh buffer, for every class and every method.               *)
(***************************************************************************)
Classes == 0..3
AllMethods == 0..4095

\* stun_init (msg, c, m, id) with id outside the buffer.
StunInit(b, c, m, id) ==
    /\ call.op = "none"
    /\ LET r == stun_init(msg[b].hdr, c, m, id, FALSE)
       IN /\ msg' = [msg EXCEPT ![b] = [init |-> TRUE, hdr |-> r.hdr, attrs |-> <<>>]]
          /\ abort' = r.abort
          /\ call' = [op |-> "init", b |-> b, c |-> c, m |-> m, id |-> id]
    /\ UNCHANGED <<bufsize, finished, store, hostBE, tvars, avars>>

NextType ==
    \/ /\ call.op = "none"
       /\ \E b \in Bufs, c \in Classes, m \in AllMethods, id \in RecvIds :
             StunInit(b, c, m, id)
    \/ /\ call.op = "none"
       /\ \E b \in Bufs, m \in AllMethods : InitRequest(b, m)

SpecType == Init /\ [][NextType]_vars

(***************************************************************************)
(* The builder appending address attributes.                               *)
(***************************************************************************)
Families == {0, 1, AF_INET, AF_INET6}
SockLens == {2, 16, 27, 28}

\* The socket address of family f the caller passes.
SockAddr(f) ==
    [set |-> TRUE, family |-> f, port |-> 3478, s_addr |-> <<192, 0, 2, 1>>,
     s6_addr |-> [i \in 0..15 |-> 32 + i]]

AppendAddr(b, type, f, addrlen) ==
    /\ CanAppend(b)
    /\ LET r == stun_append_addr(msg[b], bufsize[b], type, SockAddr(f), addrlen)
       IN /\ msg' = [msg EXCEPT ![b] = r.msg]
          /\ abort' = r.abort
          /\ call' = [op |-> "append_addr", b |-> b, ret |-> r.ret,
                      msize |-> bufsize[b], family |-> f, addrlen |-> addrlen,
                      m0 |-> msg[b], wr |-> r.wr]
    /\ UNCHANGED <<bufsize, finished, store, hostBE, tvars, avars>>

NextAddr ==
    \/ \E b \in Bufs, m \in Methods : InitRequest(b, m)
    \/ \E b \in Bufs, ty \in CallerTypes : Append32(b, ty)
    \/ \E b \in Bufs, ty \in CallerTypes, n \in StrLens : AppendString(b, ty, n)
    \/ \E b \in Bufs, ty \in CallerTypes, f \in Families, n \in SockLens :
          AppendAddr(b, ty, f, n)

SpecAddr == Init /\ [][NextAddr]_vars

(***************************************************************************)
(* The builder answering requests with error responses.                    *)
(***************************************************************************)
Codes == (300..699) \cup {0, 299, 700, 799, 800}

\* The effects of stun_init_error on buffer a, answering the header req.
DoInitError(a, q, req, err, r) ==
    /\ msg' = [msg EXCEPT ![a] = r.msg]
    /\ finished' = [finished EXCEPT ![a] = FALSE]
    /\ abort' = r.abort
    /\ call' = [op |-> "init_error", b |-> a, req |-> q, r0 |-> req,
                code |-> err, ret |-> r.ret, msize |-> bufsize[a], wr |-> r.wr]
    /\ UNCHANGED <<bufsize, store, hostBE, tvars, avars>>

\* ans != req: the error response to a received request is built in buffer a.
InitError(a, m, id, err) ==
    /\ abort = "none"
    /\ LET req == RecvHdr(STUN_REQUEST, m, id)
       IN DoInitError(a, 0, req, err,
                      stun_init_error(msg[a], bufsize[a], req, err, FALSE))

\* ans == req: the request in buffer q is answered in place.
InitErrorInPlace(q, err) ==
    /\ abort = "none"
    /\ msg[q].init
    /\ stun_get_class(msg[q].hdr) = STUN_REQUEST
    /\ DoInitError(q, q, msg[q].hdr, err,
                   stun_init_error(msg[q], bufsize[q], msg[q].hdr, err, TRUE))

\* An error response is built once in a buffer, to be sent as it is.
NoErrorYet(b) == stun_get_class(msg[b].hdr) # STUN_ERROR

NextError ==
    \/ \E b \in Bufs, m \in Methods : InitRequest(b, m)
    \/ \E b \in Bufs, ty \in CallerTypes : NoErrorYet(b) /\ Append32(b, ty)
    \/ \E a \in Bufs :
          /\ NoErrorYet(a)
          /\ \E m \in RecvMethods, id \in RecvIds, err \in Codes :
                InitError(a, m, id, err)
    \/ \E q \in Bufs :
          /\ NoErrorYet(q)
          /\ \E err \in Codes : InitErrorInPlace(q, err)

SpecError == Init /\ [][NextError]_vars

(***************************************************************************)
(* The address value, driven by one caller.  Socket addresses come from    *)
(* the network or from nice_address_copy_to_sockaddr.                      *)
(***************************************************************************)
InitAddress ==
    /\ msg = [b \in Bufs |-> NoMsg]
    /\ bufsize = [b \in Bufs |-> STUN_MAXMSG]
    /\ finished = [b \in Bufs |-> FALSE]
    /\ store = [lock |-> 0, counter |-> Zero64]
    /\ hostBE \in BOOLEAN
    /\ abort = "none"
    /\ call = [op |-> "none", a |-> 0, b |-> 0, ret |-> FALSE, str |-> <<>>,
               a0 |-> NoAddress]
    /\ tpc = [t \in Threads |-> "idle"]
    /\ tcounter = [t \in Threads |-> Zero64]
    /\ tid = [t \in Threads |-> [i \in 0..11 |-> 0]]
    /\ treq = [t \in Threads |-> ZeroHdr]
    /\ tcalls = [t \in Threads |-> 0]
    /\ acq = <<>>
    /\ issued = <<>>
    /\ na = [i \in AddrIds |-> NoAddress]
    /\ sin = NoSockaddr

\* What the address functions leave alone.
nvars == <<msg, bufsize, finished, store, hostBE, tvars>>

ACall(op, a, b, ret, str) ==
    [op |-> op, a |-> a, b |-> b, ret |-> ret, str |-> str,
     a0 |-> IF a \in AddrIds THEN na[a] ELSE NoAddress]

\* A socket address of family f filled in by the network stack: port and
\* addresses are in network byte order.
RecvSockaddr(f, port, a4, a6) ==
    /\ abort = "none"
    /\ ~sin.set
    /\ sin' = [set |-> TRUE, family |-> f,
               port |-> <<port \div 256, port % 256>>,
               s_addr |-> a4, s6_addr |-> a6,
               copied |-> FALSE, of |-> NoAddress]
    /\ call' = ACall("recv", 0, 0, FALSE, <<>>)
    /\ UNCHANGED <<na, abort, nvars>>

SetIpv4(i, v) ==
    /\ abort = "none"
    /\ na' = [na EXCEPT ![i] = nice_address_set_ipv4(@, v, hostBE)]
    /\ call' = ACall("set_ipv4", i, 0, FALSE, <<>>)
    /\ UNCHANGED <<sin, abort, nvars>>

SetIpv6(i, x) ==
    /\ abort = "none"
    /\ na' = [na EXCEPT ![i] = nice_address_set_ipv6(@, x)]
    /\ call' = ACall("set_ipv6", i, 0, FALSE, <<>>)
    /\ UNCHANGED <<sin, abort, nvars>>

SetIpv4FromString(i, str) ==
    /\ abort = "none"
    /\ LET r == nice_address_set_ipv4_from_string(na[i], str, hostBE)
       IN /\ na' = [na EXCEPT ![i] = r.addr]
          /\ call' = ACall("set_ipv4_from_string", i, 0, r.ret, str)
    /\ UNCHANGED <<sin, abort, nvars>>

SetFromSockaddr(i) ==
    /\ abort = "none"
    /\ sin.set
    /\ LET r == nice_address_set_from_sockaddr(na[i], sin, hostBE)
       IN /\ na' = [na EXCEPT ![i] = r.addr]
          /\ abort' = r.abort
    /\ call' = ACall("set_from_sockaddr", i, 0, FALSE, <<>>)
    /\ UNCHANGED <<sin, nvars>>

CopyToSockaddr(i) ==
    /\ abort = "none"
    /\ LET r == nice_address_copy_to_sockaddr(na[i], sin, hostBE)
       IN /\ sin' = r.sin
          /\ abort' = r.abort
    /\ call' = ACall("copy_to_sockaddr", i, 0, FALSE, <<>>)
    /\ UNCHANGED <<na, nvars>>

Equal(i, j) ==
    /\ abort = "none"
    /\ LET r == nice_address_equal(na[i], na[j], hostBE)
       IN /\ call' = ACall("equal", i, j, r.ret, <<>>)
          /\ abort' = r.abort
    /\ UNCHANGED <<na, sin, nvars>>

IsPrivate(i) ==
    /\ abort = "none"
    /\ LET r == nice_address_is_private(na[i], hostBE)
       IN /\ call' = ACall("is_private", i, 0, r.ret, <<>>)
          /\ abort' = r.abort
    /\ UNCHANGED <<na, sin, nvars>>

\* The inputs of the address functions.
AF_UNIX == 1
Ports == {1, 3478}
NetAddrs4 == {<<8, 8, 8, 8>>, <<172, 16, 0, 1>>}
Ipv6Loopback == [i \in 0..15 |-> IF i = 15 THEN 1 ELSE 0]
Ipv6Doc == [i \in 0..15 |-> <<32, 1, 13, 184, 0, 0, 0, 0, 0, 0, 0, 0, 0, 0, 10, 1>>[i + 1]]
Addrs6 == {Ipv6Loopback, Ipv6Doc}
Addrs4 == {<<10, 0, 0, 1>>, <<192, 168, 1, 1>>}

\* The round trip through a socket address: address 1 is copied out,
\* address 2 is set from the socket address.
NextRoundTrip ==
    \/ \E f \in {AF_INET, AF_INET6, AF_UNIX}, p \in Ports :
          RecvSockaddr(f, p, <<8, 8, 8, 8>>, Ipv6Loopback)
    \/ \E v \in Addrs4 : SetIpv4(1, v)
    \/ \E x \in Addrs6 : SetIpv6(1, x)
    \/ \E i \in AddrIds : SetFromSockaddr(i)
    \/ CopyToSockaddr(1)
    \/ Equal(1, 2)

SpecRoundTrip == InitAddress /\ [][NextRoundTrip]_vars

\* The IPv4 addresses is_private is asked about: the ranges' members, their
\* edges and neighbours, and addresses that read as members backwards.
Samples4 ==
    {<<10, 0, 0, 1>>, <<172, 16, 0, 1>>, <<192, 168, 1, 1>>, <<127, 0, 0, 1>>,
     <<8, 8, 8, 8>>, <<172, 32, 0, 1>>, <<192, 169, 0, 1>>,
     <<10, 255, 255, 255>>, <<9, 255, 255, 255>>, <<11, 0, 0, 0>>,
     <<172, 15, 255, 255>>, <<172, 20, 0, 1>>, <<172, 31, 255, 255>>,
     <<192, 167, 255, 255>>, <<192, 168, 0, 0>>, <<126, 255, 255, 255>>,
     <<128, 0, 0, 0>>, <<0, 0, 0, 0>>, <<255, 255, 255, 255>>,
     <<1, 0, 0, 10>>, <<1, 1, 168, 192>>, <<1, 0, 0, 127>>}

NextPrivate ==
    \/ \E f \in {AF_INET, AF_INET6}, p \in Ports, a4 \in NetAddrs4 :
          RecvSockaddr(f, p, a4, Ipv6Doc)
    \/ \E v \in Samples4 : SetIpv4(1, v)
    \/ SetIpv6(1, Ipv6Doc)
    \/ SetFromSockaddr(1)
    \/ IsPrivate(1)

SpecPrivate == InitAddress /\ [][NextPrivate]_vars

\* The strings nice_address_set_ipv4_from_string is given, once on each
\* address the caller holds.
Alphabet == {"1", "9", "."}
OddStrings ==
    {<<"x">>, <<"1", "x">>,
     <<"1", ".", "1", ".", "1", ".", "9", "x">>,
     <<"1", ".", "1", ".", "1", ".", "9", " ">>,
     <<"1", ".", "1", ".", "1", ".", "1", ".", "9">>}
Strings == UNION {[1..n -> Alphabet] : n \in 0..MaxStrLen} \cup OddStrings

NextParse ==
    \/ /\ call.op # "set_ipv4_from_string"
       /\ \E f \in {AF_INET, AF_INET6}, p \in Ports :
             RecvSockaddr(f, p, <<8, 8, 8, 8>>, Ipv6Doc)
    \/ /\ call.op # "set_ipv4_from_string"
       /\ SetFromSockaddr(1)
    \/ /\ call.op # "set_ipv4_from_string"
       /\ \E str \in Strings : SetIpv4FromString(1, str)

SpecParse == InitAddress /\ [][NextParse]_vars

(***************************************************************************)
(* The three entry points of finishing, with the arguments the caller      *)
(* passed recorded as passed: call.entry names the function called,        *)
(* call.args its credentials.                                              *)
(***************************************************************************)
Passwords == {NULL, Ptr(0), Ptr(5)}

DoFinishAs(b, entry, args, s) ==
    /\ msg' = [msg EXCEPT ![b] = s.msg]
    /\ finished' = [finished EXCEPT ![b] = TRUE]
    /\ abort' = s.abort
    /\ call' = [op |-> "finish", entry |-> entry, args |-> args, b |-> b,
                ret |-> s.ret, msize |-> bufsize[b], plen |-> s.plen,
                m0 |-> msg[b], ev |-> s.ev, wr |-> s.wr]
    /\ UNCHANGED <<bufsize, store, hostBE, tvars, avars>>

CallFinishLong(b, realm, username, key, nonce) ==
    /\ CanFinish(b)
    /\ DoFinishAs(b, "stun_finish_long",
                  [realm |-> realm, username |-> username, password |-> key,
                   nonce |-> nonce],
                  stun_finish_long(msg[b], bufsize[b], realm, username,
                                   key, key.len, nonce, nonce.len))

CallFinishShort(b, username, password, nonce) ==
    /\ CanFinish(b)
    /\ DoFinishAs(b, "stun_finish_short",
                  [realm |-> NULL, username |-> username,
                   password |-> password, nonce |-> nonce],
                  stun_finish_short(msg[b], bufsize[b], username, password,
                                    nonce, nonce.len))

CallFinish(b) ==
    /\ CanFinish(b)
    /\ DoFinishAs(b, "stun_finish",
                  [realm |-> NULL, username |-> NULL, password |-> NULL,
                   nonce |-> NULL],
                  stun_finish(msg[b], bufsize[b]))

NextEntry ==
    \/ \E b \in Bufs, m \in Methods : InitRequest(b, m)
    \/ \E b \in Bufs, ty \in CallerTypes : Append32(b, ty)
    \/ \E b \in Bufs, ty \in CallerTypes, n \in StrLens : AppendString(b, ty, n)
    \/ \E b \in Bufs, re \in OptArgs, us \in OptArgs, ke \in Passwords,
          no \in OptArgs : CallFinishLong(b, re, us, ke, no)
    \/ \E b \in Bufs, us \in OptArgs, pw \in Passwords, no \in OptArgs :
          CallFinishShort(b, us, pw, no)
    \/ \E b \in Bufs : CallFinish(b)

SpecEntry == Init /\ [][NextEntry]_vars

(***************************************************************************)
(* stunsend.c: stun_init_error_unknown.  req is the request message, m the *)
(* message in ans (m = req when ans == req).  Attribute types of requests  *)
(* are their 16-bit numbers.                                               *)
(***************************************************************************)
STUN_UNKNOWN_ATTRIBUTES == "UNKNOWN-ATTRIBUTES"

\* The attribute numbers the parser knows, and its test for the optional
\* ones (0x8000 and above).
KnownAttrIds == {1, 6, 8, 9, 10, 20, 21, 32, 36, 32808}
stun_is_unknown(t) == t \notin KnownAttrIds
stun_optional(t) == t >= 32768

\* stun_find_unknown (req, list, max): the types of the attributes of req
\* that are unknown and not optional, in order, at most max of them.
UnknownRequired(a) == ~stun_optional(a.type) /\ stun_is_unknown(a.type)

stun_find_unknown(req, max) ==
    LET found == SelectSeq(req.attrs, UnknownRequired)
    IN [i \in 1..(IF Len(found) < max THEN Len(found) ELSE max) |->
           found[i].type]

\* stun_append_bytes (msg, msize, type, data, len) with the bytes of data.
stun_append_data(m, msize, type, data) ==
    LET r == stun_append(m, msize, type, Len(data))
    IN IF r.abort # "none"
       THEN [ret |-> ENOBUFS, msg |-> r.msg, wr |-> r.wr, abort |-> r.abort]
       ELSE IF r.ptr = 0
       THEN [ret |-> ENOBUFS, msg |-> r.msg, wr |-> r.wr, abort |-> "none"]
       ELSE [ret |-> 0, msg |-> Fill(r.msg, r.ptr, data),
             wr |-> r.wr \cup {<<r.ptr, r.ptr + Len(data)>>}, abort |-> "none"]

\* ids[i] = htons (ids[i]) for each id, as the bytes of the array.
RECURSIVE IdBytes(_, _)
IdBytes(ids, be) ==
    IF ids = <<>> THEN <<>>
    ELSE Store16(htons(Head(ids), be), be) \o IdBytes(Tail(ids), be)

\* stun_init_error_unknown looking for the unknown attributes once
\* stun_init_error has written ans: with ans == req the header length is 0
\* by then and nothing is found.
stun_init_error_unknown_LateFind(m, msize, req, same, be) ==
    IF stun_get_class(req.hdr) # STUN_REQUEST
    THEN [ret |-> 0, msg |-> m, wr |-> {}, abort |-> "init_error_unknown_class"]
    ELSE LET e == stun_init_error(m, msize, req.hdr, STUN_UNKNOWN_ATTRIBUTE, same)
             ids == IF same THEN <<>>
                    ELSE stun_find_unknown(req, stun_length(req.hdr) \div 4)
         IN IF e.abort # "none" THEN e
            ELSE IF ~(Len(ids) > 0)
            THEN [ret |-> 0, msg |-> e.msg, wr |-> e.wr,
                  abort |-> "init_error_unknown_counter"]
            ELSE IF e.ret # 0
            THEN [ret |-> ENOBUFS, msg |-> e.msg, wr |-> e.wr, abort |-> "none"]
            ELSE LET r == stun_append_data(e.msg, msize, STUN_UNKNOWN_ATTRIBUTES,
                                           IdBytes(ids, be))
                 IN [r EXCEPT !.wr = @ \cup e.wr]

stun_init_error_unknown(m, msize, req, same, be) ==
    IF stun_get_class(req.hdr) # STUN_REQUEST
    THEN [ret |-> 0, msg |-> m, wr |-> {}, abort |-> "init_error_unknown_class"]
    ELSE LET ids == stun_find_unknown(req, stun_length(req.hdr) \div 4)
         IN IF ~(Len(ids) > 0)
            THEN [ret |-> 0, msg |-> m, wr |-> {},
                  abort |-> "init_error_unknown_counter"]
            ELSE LET e == stun_init_error(m, msize, req.hdr,
                                          STUN_UNKNOWN_ATTRIBUTE, same)
                 IN IF e.abort # "none" THEN e
                    ELSE IF e.ret # 0
                    THEN [ret |-> ENOBUFS, msg |-> e.msg, wr |-> e.wr,
                          abort |-> "none"]
                    ELSE LET r == stun_append_data(e.msg, msize,
                                                   STUN_UNKNOWN_ATTRIBUTES,
                                                   IdBytes(ids, be))
                         IN [r EXCEPT !.wr = @ \cup e.wr]

\* A message of class c received from the network, with one 4-byte
\* attribute of each of the types.
RECURSIVE RecvAttrs(_, _)
RecvAttrs(m, types) ==
    IF types = <<>> THEN m
    ELSE RecvAttrs(stun_append32(m, STUN_MAXMSG, Head(types)).msg, Tail(types))

RecvMsg(c, m, id, types) ==
    RecvAttrs([init |-> TRUE,
               hdr |-> [RecvHdr(c, m, id) EXCEPT ![2] = 0, ![3] = 0],
               attrs |-> <<>>], types)

\* PRIORITY, two unknown types and an unknown optional type.
ReqTypes == {36, 258, 32513, 33059}
TypeSeqs == UNION {[1..n -> ReqTypes] : n \in 0..MaxAttrs}

InitUnknown ==
    /\ msg = [b \in Bufs |-> NoMsg]
    /\ bufsize \in [Bufs -> {29, 48, 70000}]
    /\ finished = [b \in Bufs |-> FALSE]
    /\ store = [lock |-> 0, counter |-> Zero64]
    /\ hostBE = FALSE
    /\ abort = "none"
    /\ call = [op |-> "none", b |-> 0, same |-> FALSE, req0 |-> NoMsg,
               ret |-> 0, msize |-> 0]
    /\ tpc = [t \in Threads |-> "idle"]
    /\ tcounter = [t \in Threads |-> Zero64]
    /\ tid = [t \in Threads |-> [i \in 0..11 |-> 0]]
    /\ treq = [t \in Threads |-> ZeroHdr]
    /\ tcalls = [t \in Threads |-> 0]
    /\ acq = <<>>
    /\ issued = <<>>
    /\ na = [i \in AddrIds |-> NoAddress]
    /\ sin = NoSockaddr

\* A message is received into the empty buffer q.
Receive(q, c, m, id, types) ==
    /\ abort = "none"
    /\ ~msg[q].init
    /\ msg' = [msg EXCEPT ![q] = RecvMsg(c, m, id, types)]
    /\ call' = [op |-> "recv", b |-> q, same |-> FALSE, req0 |-> NoMsg,
                ret |-> 0, msize |-> bufsize[q]]
    /\ UNCHANGED <<bufsize, finished, store, hostBE, abort, tvars, avars>>

DoInitErrorUnknown(a, req, same, r) ==
    /\ msg' = [msg EXCEPT ![a] = r.msg]
    /\ finished' = [finished EXCEPT ![a] = FALSE]
    /\ abort' = r.abort
    /\ call' = [op |-> "init_error_unknown", b |-> a, same |-> same,
                req0 |-> req, ret |-> r.ret, msize |-> bufsize[a]]
    /\ UNCHANGED <<bufsize, store, hostBE, tvars, avars>>

\* ans != req: the response to a received request is built in buffer a.
InitErrorUnknown(a, m, id, types) ==
    /\ abort = "none"
    /\ LET req == RecvMsg(STUN_REQUEST, m, id, types)
       IN DoInitErrorUnknown(a, req, FALSE,
              stun_init_error_unknown(msg[a], bufsize[a], req, FALSE, hostBE))

\* ans == req: the message received into buffer q is answered in place.
InitErrorUnknownInPlace(q) ==
    /\ abort = "none"
    /\ msg[q].init
    /\ DoInitErrorUnknown(q, msg[q], TRUE,
           stun_init_error_unknown(msg[q], bufsize[q], msg[q], TRUE, hostBE))

NextUnknown ==
    \/ \E q \in Bufs, c \in {STUN_REQUEST, STUN_RESPONSE}, m \in Methods,
          id \in RecvIds, types \in TypeSeqs : Receive(q, c, m, id, types)
    \/ \E a \in Bufs :
          /\ NoErrorYet(a)
          /\ \E m \in RecvMethods, id \in RecvIds, types \in TypeSeqs :
                InitErrorUnknown(a, m, id, types)
    \/ \E q \in Bufs : NoErrorYet(q) /\ InitErrorUnknownInPlace(q)

SpecUnknown == InitUnknown /\ [][NextUnknown]_vars

(***************************************************************************)
(* The builder given long strings: lengths at and around the largest one   *)
(* that fits, 0xffff and more, in buffers smaller and larger than          *)
(* STUN_MAXMSG.                                                            *)
(***************************************************************************)
NextWrap ==
    \/ \E b \in Bufs, m \in Methods : InitRequest(b, m)
    \/ \E b \in Bufs, ty \in CallerTypes,
          n \in {0, 5, 65480, 65491, 65492, 65534, 65535, 70000} :
          AppendString(b, ty, n)
    \/ \E b \in Bufs, re \in OptArgs, us \in OptArgs, ke \in OptArgs,
          no \in OptArgs : FinishLong(b, re, us, ke, no)

SpecWrap == Init /\ [][NextWrap]_vars

(***************************************************************************)
(* Vocabulary of the properties.                                           *)
(***************************************************************************)
Min(a, b) == IF a < b THEN a ELSE b

\* pad_len(n) = (4 - n mod 4) mod 4
PadLen(n) == (4 - (n % 4)) % 4

AttrSize(a) == 4 + a.length + PadLen(a.length)

RECURSIVE SumAttrs(_)
SumAttrs(as) == IF as = <<>> THEN 0 ELSE AttrSize(Head(as)) + SumAttrs(Tail(as))

HeaderLength(m) == m.hdr[2] * 256 + m.hdr[3]

IsAppend == call.op \in {"append_flag", "append32", "append64", "append_string"}
IsFinish == call.op = "finish"

\* The buffer the last call worked on, and the attributes the call added.
Now == msg[call.b]
Added == SubSeq(Now.attrs, Len(call.m0.attrs) + 1, Len(Now.attrs))

(***************************************************************************)
(* C1: an append either returns NoBufferSpace and leaves header.length     *)
(* unchanged, which it does exactly when mlen + 24 + length exceeds        *)
(* min(bufsize, STUN_MAXMSG), or returns 0 and has advanced header.length  *)
(* by exactly 4 + length + pad_len(length).                                *)
(***************************************************************************)
C1_AppendTwoOutcomes ==
    IsAppend =>
        LET h0 == HeaderLength(call.m0)
            n == call.len
        IN /\ abort = "none"
           /\ IF h0 + 24 + n > Min(call.msize, STUN_MAXMSG)
              THEN call.ret = ENOBUFS /\ HeaderLength(Now) = h0
              ELSE call.ret = 0 /\ HeaderLength(Now) = h0 + 4 + n + PadLen(n)

\* A padded attribute appended behind earlier ones.
C1_Witness ==
    /\ IsAppend
    /\ call.ret = 0
    /\ call.len % 4 # 0
    /\ HeaderLength(call.m0) > 0

(***************************************************************************)
(* C2: in every state reached from an init call by appends and finish      *)
(* calls, failed ones included, header.length is a multiple of 4 and is    *)
(* the sum of 4 + payload_len + pad_len(payload_len) over the attributes   *)
(* appended so far, and the padding assertion of stun_append never fails.  *)
(***************************************************************************)
C2_HeaderLengthIsSum ==
    /\ abort # "append_padding"
    /\ \A b \in Bufs :
          msg[b].init =>
              /\ HeaderLength(msg[b]) % 4 = 0
              /\ HeaderLength(msg[b]) = SumAttrs(msg[b].attrs)

\* A padded attribute appended after a finish call that failed half way.
C2_Witness ==
    /\ IsAppend
    /\ call.ret = 0
    /\ call.len % 4 # 0
    /\ finished[call.b]
    /\ Len(Now.attrs) >= 2

(***************************************************************************)
(* C3: after a successful append into a buffer of declared size bufsize    *)
(* every byte written lies below min(bufsize, STUN_MAXMSG) and             *)
(* 20 + header.length <= min(bufsize, STUN_MAXMSG).                        *)
(***************************************************************************)
C3_NoOverflow ==
    (IsAppend /\ call.ret = 0) =>
        /\ \A w \in call.wr : w[2] <= Min(call.msize, STUN_MAXMSG)
        /\ 20 + HeaderLength(Now) <= Min(call.msize, STUN_MAXMSG)


(***************************************************************************)
(* Vocabulary of the finish properties.                                    *)
(***************************************************************************)
\* The attributes a finish call with arguments f appends before
\* MESSAGE-INTEGRITY, and all of them, in the order of the specification.
Credentials(f) ==
    (IF f.realm.null THEN <<>> ELSE <<[type |-> STUN_REALM, len |-> f.realm.len]>>)
    \o (IF f.username.null THEN <<>>
        ELSE <<[type |-> STUN_USERNAME, len |-> f.username.len]>>)
    \o (IF f.nonce.null THEN <<>> ELSE <<[type |-> STUN_NONCE, len |-> f.noncelen]>>)

Expected(f) ==
    Credentials(f)
    \o (IF f.key.null THEN <<>> ELSE <<[type |-> STUN_MESSAGE_INTEGRITY, len |-> 20]>>)
    \o <<[type |-> STUN_FINGERPRINT, len |-> 4]>>

RECURSIVE SumLens(_)
SumLens(es) ==
    IF es = <<>> THEN 0
    ELSE 4 + Head(es).len + PadLen(Head(es).len) + SumLens(Tail(es))

Shape(as) == [i \in DOMAIN as |-> [type |-> as[i].type, len |-> as[i].length]]

\* The sha1 events of the last call.
Sha1Events == {i \in DOMAIN call.ev : call.ev[i].e = "sha1"}

(***************************************************************************)
(* C4 as stated: after appends that succeeded with size N, a finish_long   *)
(* with *len = N and a key never fails for lack of room when it reserves   *)
(* MESSAGE-INTEGRITY or FINGERPRINT.                                       *)
(***************************************************************************)
C4_FinishNeverLacksRoom ==
    (IsFinish /\ ~call.fin.key.null) =>
        ~(call.ret = ENOBUFS /\ Len(Added) >= Len(Credentials(call.fin)))

(***************************************************************************)
(* C4 amended: the check of an append leaves no room for later attributes. *)
(* A finish_long with a key and *len = N that reaches the                  *)
(* MESSAGE-INTEGRITY step with header.length = h returns 0 exactly when    *)
(* h + 52 <= min(N, STUN_MAXMSG), and NoBufferSpace otherwise.             *)
(***************************************************************************)
C4_FinishRoom ==
    (IsFinish /\ ~call.fin.key.null /\ Len(Added) >= Len(Credentials(call.fin))) =>
        LET h == HeaderLength(call.m0) + SumLens(Credentials(call.fin))
        IN /\ call.ret \in {0, ENOBUFS}
           /\ call.ret = 0 <=> h + 52 <= Min(call.msize, STUN_MAXMSG)

\* A finish with a key that fails at MESSAGE-INTEGRITY or FINGERPRINT on a
\* message whose appends had all fitted.
C4_Witness ==
    /\ IsFinish
    /\ ~call.fin.key.null
    /\ Len(call.m0.attrs) >= 1
    /\ Len(Added) >= Len(Credentials(call.fin))
    /\ call.ret = ENOBUFS

(***************************************************************************)
(* C5: in a message finish_long finished, the attributes it added follow   *)
(* the caller's in the order REALM, USERNAME, NONCE, MESSAGE-INTEGRITY,    *)
(* FINGERPRINT; each of the first four is there exactly when its argument  *)
(* is non-null, and FINGERPRINT is always there, as the last attribute.    *)
(***************************************************************************)
C5_FinishOrder ==
    (IsFinish /\ call.ret = 0) =>
        /\ Len(Now.attrs) >= Len(call.m0.attrs)
        /\ SubSeq(Now.attrs, 1, Len(call.m0.attrs)) = call.m0.attrs
        /\ Shape(Added) = Expected(call.fin)
        /\ Now.attrs[Len(Now.attrs)].type = STUN_FINGERPRINT

\* All five attributes added behind a caller's attribute.
C5_Witness ==
    /\ IsFinish
    /\ call.ret = 0
    /\ Len(call.m0.attrs) >= 1
    /\ Len(Added) = 5

(***************************************************************************)
(* C6 as stated: the HMAC input is the message up to the payload of        *)
(* MESSAGE-INTEGRITY, the TLV header of that attribute included, and the   *)
(* payload slot holds zero bytes when the HMAC is computed.                *)
(***************************************************************************)
C6_HmacIncludesTlvHeader ==
    \A i \in Sha1Events :
        /\ call.ev[i].from = 0
        /\ call.ev[i].to = call.ev[i].at
        /\ call.ev[i].slot = "zero"

(***************************************************************************)
(* C6 amended: the HMAC input is the message up to the TLV header of       *)
(* MESSAGE-INTEGRITY, which is the whole message minus the 24 bytes of     *)
(* MESSAGE-INTEGRITY and the 8 bytes of FINGERPRINT; the payload slot is   *)
(* no part of the input and holds what the buffer held before.             *)
(***************************************************************************)
C6_HmacStopsBeforeIntegrity ==
    (IsFinish /\ ~call.fin.key.null /\ call.ret = 0) =>
        /\ Sha1Events # {}
        /\ \A i \in Sha1Events :
              LET mi == Now.attrs[Len(Now.attrs) - 1]
              IN /\ mi.type = STUN_MESSAGE_INTEGRITY
                 /\ call.ev[i].at = mi.off + 4
                 /\ call.ev[i].from = 0
                 /\ call.ev[i].to = mi.off
                 /\ call.ev[i].to = 20 + HeaderLength(Now) - 8 - 24
                 /\ call.ev[i].slot = "stale"

\* A keyed finish behind a caller's attribute.
C6_Witness ==
    /\ IsFinish
    /\ call.ret = 0
    /\ Sha1Events # {}
    /\ Len(call.m0.attrs) >= 1

(***************************************************************************)
(* C7: whenever finish_long calls stun_sha1 the header length counts       *)
(* MESSAGE-INTEGRITY (24) and FINGERPRINT (8), so it is at least 32 and    *)
(* the assertion of stun_sha1 holds; the HMAC input is the first           *)
(* stun_length(msg) - 12 bytes.                                            *)
(***************************************************************************)
C7_Sha1Precondition ==
    /\ abort # "sha1_length"
    /\ \A i \in Sha1Events :
          LET h == HeaderLength(call.m0) + SumLens(Credentials(call.fin))
          IN /\ call.ev[i].hl = h + 24 + 8
             /\ call.ev[i].hl >= 32
             /\ call.ev[i].from = 0
             /\ call.ev[i].to = call.ev[i].hl - 12

\* stun_sha1 called on a message that held nothing but the header.
C7_Witness ==
    /\ Sha1Events # {}
    /\ call.m0.attrs = <<>>
    /\ Credentials(call.fin) = <<>>
    /\ \E i \in Sha1Events : call.ev[i].hl = 32

(***************************************************************************)
(* C8: a finish call stores *len exactly when it returns 0, and then       *)
(* 20 + header.length (28 for a header-only message without credentials);  *)
(* when a reservation fails it returns NoBufferSpace, *len keeps the value *)
(* passed in and the attributes of the earlier steps stay in the buffer    *)
(* and in header.length.                                                   *)
(***************************************************************************)
C8_LengthOutParameter ==
    IsFinish =>
        /\ abort = "none"
        /\ call.ret \in {0, ENOBUFS}
        /\ call.ret = 0 =>
              /\ call.plen = 20 + HeaderLength(Now)
              /\ (call.m0.attrs = <<>> /\ call.fin = NoFin) => call.plen = 28
        /\ call.ret = ENOBUFS =>
              /\ call.plen = call.msize
              /\ Len(Added) < Len(Expected(call.fin))
              /\ Shape(Added) = SubSeq(Expected(call.fin), 1, Len(Added))
              /\ SubSeq(Now.attrs, 1, Len(call.m0.attrs)) = call.m0.attrs
              /\ HeaderLength(Now) = HeaderLength(call.m0) + SumAttrs(Added)

\* A finish that fails after it appended USERNAME.
C8_Witness ==
    /\ IsFinish
    /\ call.ret = ENOBUFS
    /\ Len(Added) >= 1
    /\ Added[1].type = STUN_USERNAME
    /\ call.plen = call.msize
    /\ call.plen < 20 + HeaderLength(Now) + 24

(***************************************************************************)
(* C9: whatever the interleaving of the threads calling init_request, no   *)
(* two calls read the same counter value and no increment is lost, the     *)
(* values read follow the order in which the mutex was taken, every call   *)
(* gets a different transaction ID, and bytes 0..4 of every ID are zero.   *)
(***************************************************************************)
C9_TransidsDistinct ==
    /\ \A i, j \in DOMAIN acq : i # j => acq[i].counter # acq[j].counter
    /\ \A i \in DOMAIN acq : Low16(acq[i].counter) = i - 1
    /\ (\A t \in Threads : tpc[t] # "read") => Low16(store.counter) = Len(acq)
    /\ \A i, j \in DOMAIN issued : i # j => issued[i].id # issued[j].id
    /\ \A i \in DOMAIN issued : \A k \in 0..3 : issued[i].id[k] = 0
    /\ \A t \in Threads :
          tcalls[t] > 0 => \E i \in DOMAIN issued :
                              issued[i].t = t /\ stun_id(treq[t]) = issued[i].id

\* Two threads whose calls overlapped: the one that took the mutex first
\* finished its request last.
C9_Witness ==
    /\ Len(issued) >= 2
    /\ acq[1].t = issued[2].t
    /\ acq[2].t = issued[1].t
    /\ issued[1].t # issued[2].t

(***************************************************************************)
(* C10: init_response(ans, req) on a request gives a header of class       *)
(* RESPONSE with the method and the transaction ID of req, the cookie      *)
(* 0x2112A442 and length 0, also when ans and req are the same buffer.     *)
(***************************************************************************)
C10_InitResponse ==
    (call.op = "init_response" /\ stun_get_class(call.r0) = STUN_REQUEST) =>
        LET h == Now.hdr
        IN /\ abort = "none"
           /\ Now.init
           /\ stun_get_class(h) = STUN_RESPONSE
           /\ stun_get_method(h) = stun_get_method(call.r0)
           /\ \A i \in 8..19 : h[i] = call.r0[i]
           /\ <<h[4], h[5], h[6], h[7]>> = <<33, 18, 164, 66>>
           /\ <<h[2], h[3]>> = <<0, 0>>
           /\ Now.attrs = <<>>

\* A request that carries attributes, answered in place.
C10_Witness ==
    /\ call.op = "init_response"
    /\ call.req = call.b
    /\ abort = "none"
    /\ call.r0[3] # 0
    /\ stun_get_method(call.r0) # 0

(***************************************************************************)
(* C11: for every class c in 0..3 and method m in 0..0xFFF header          *)
(* initialisation stores buf[0] = (c >> 1) | ((m >> 6) & 0x3E) and         *)
(* buf[1] = ((c << 4) & 0x10) | ((m << 1) & 0xE0) | (m & 0x0F); the 16-bit *)
(* value is below 2^14 and decodes back to (c, m), so no assertion of      *)
(* stun_set_type fails.  After init_request(buf, m) the class decodes to   *)
(* REQUEST, the method to m, bytes 4..8 are 21 12 A4 42 and the length 0.  *)
(***************************************************************************)
C11_TypeEncoding ==
    /\ call.op = "init" =>
          LET h == Now.hdr
              c == call.c
              m == call.m
          IN /\ abort = "none"
             /\ h[0] = (c \div 2) + 2 * ((m \div 128) % 32)
             /\ h[1] = (c % 2) * 16 + ((m \div 16) % 8) * 32 + (m % 16)
             /\ h[0] * 256 + h[1] < 16384
             /\ stun_get_class(h) = c
             /\ stun_get_method(h) = m
             /\ \A i \in 8..19 : h[i] = call.id[i - 8]
    /\ call.op = "init_request" =>
          LET h == Now.hdr
          IN /\ abort = "none"
             /\ stun_get_class(h) = STUN_REQUEST
             /\ stun_get_method(h) = call.len
             /\ <<h[4], h[5], h[6], h[7]>> = <<33, 18, 164, 66>>
             /\ <<h[2], h[3]>> = <<0, 0>>

\* An indication with every bit of the method set.
C11_Witness ==
    /\ call.op = "init"
    /\ call.c = 1
    /\ call.m = 4095
    /\ Now.hdr[0] = 62
    /\ Now.hdr[1] = 255

(***************************************************************************)
(* Vocabulary of the append_addr properties.                               *)
(***************************************************************************)
IsAppendAddr == call.op = "append_addr"

\* The payload of the address attribute of family f: 8 or 20 bytes.
AddrPayloadLen(f) == IF f = AF_INET THEN 8 ELSE 20

AddrFits ==
    HeaderLength(call.m0) + 24 + AddrPayloadLen(call.family)
        <= Min(call.msize, STUN_MAXMSG)

IsInitError == call.op = "init_error"

\* The catalog of section 4.6 of the specification.
CatalogPhrase(code) ==
    CASE code = 300 ->
           <<"T", "r", "y", " ", "a", "l", "t", "e", "r", "n", "a", "t", "e",
             " ", "s", "e", "r", "v", "e", "r">>
      [] code = 400 ->
           <<"B", "a", "d", " ", "r", "e", "q", "u", "e", "s", "t">>
      [] code = 401 ->
           <<"A", "u", "t", "h", "o", "r", "i", "z", "a", "t", "i", "o", "n",
             " ", "r", "e", "q", "u", "i", "r", "e", "d">>
      [] code = 420 ->
           <<"U", "n", "k", "n", "o", "w", "n", " ", "a", "t", "t", "r", "i",
             "b", "u", "t", "e">>
      [] code = 430 ->
           <<"A", "u", "t", "h", "e", "n", "t", "i", "c", "a", "t", "i", "o",
             "n", " ", "e", "x", "p", "i", "r", "e", "d">>
      [] code = 431 ->
           <<"I", "n", "c", "o", "r", "r", "e", "c", "t", " ", "u", "s", "e",
             "r", "n", "a", "m", "e", "/", "p", "a", "s", "s", "w", "o", "r",
             "d">>
      [] code = 432 ->
           <<"U", "s", "e", "r", "n", "a", "m", "e", " ", "r", "e", "q", "u",
             "i", "r", "e", "d">>
      [] code = 433 ->
           <<"S", "e", "c", "u", "r", "e", " ", "c", "o", "n", "n", "e", "c",
             "t", "i", "o", "n", " ", "r", "e", "q", "u", "i", "r", "e", "d">>
      [] code = 434 ->
           <<"A", "u", "t", "h", "e", "n", "t", "i", "c", "a", "t", "i", "o",
             "n", " ", "d", "o", "m", "a", "i", "n", " ", "r", "e", "q", "u",
             "i", "r", "e", "d">>
      [] code = 435 ->
           <<"A", "u", "t", "h", "e", "n", "t", "i", "c", "a", "t", "i", "o",
             "n", " ", "t", "o", "k", "e", "n", " ", "m", "i", "s", "s", "i",
             "n", "g">>
      [] code = 436 ->
           <<"U", "n", "k", "n", "o", "w", "n", " ", "u", "s", "e", "r", " ",
             "n", "a", "m", "e">>
      [] code = 438 ->
           <<"A", "u", "t", "h", "e", "n", "t", "i", "c", "a", "t", "i", "o",
             "n", " ", "t", "o", "k", "e", "n", " ", "e", "x", "p", "i", "r",
             "e", "d">>
      [] code = 487 ->
           <<"R", "o", "l", "e", " ", "c", "o", "n", "f", "l", "i", "c", "t">>
      [] code = 500 ->
           <<"T", "e", "m", "p", "o", "r", "a", "r", "y", " ", "s", "e", "r",
             "v", "e", "r", " ", "e", "r", "r", "o", "r">>
      [] code = 600 ->
           <<"U", "n", "r", "e", "c", "o", "v", "e", "r", "a", "b", "l", "e",
             " ", "f", "a", "i", "l", "u", "r", "e">>
      [] OTHER ->
           <<"U", "n", "k", "n", "o", "w", "n", " ", "e", "r", "r", "o", "r">>

(***************************************************************************)
(* C13: init_error with a code outside 300..699 returns InvalidArgument,   *)
(* neither aborting nor succeeding, and has not reserved the ERROR-CODE    *)
(* attribute in the message.                                               *)
(***************************************************************************)
C13_ErrorCodeRange ==
    (IsInitError /\ call.code \notin 300..699) =>
        /\ abort = "none"
        /\ call.ret = EINVAL
        /\ Now.attrs = <<>>
        /\ HeaderLength(Now) = 0

(***************************************************************************)
(* C14: for a request req and a code in 300..699, a successful init_error  *)
(* gives a message of class ERROR with the method and transaction ID of    *)
(* req whose only attribute is ERROR-CODE with the payload 00 00, code/100,*)
(* code%100 and the catalog's phrase for the code ("Unknown error" when    *)
(* the catalog has none); header.length is                                 *)
(* 4 + (4 + phrase_len) + pad_len(4 + phrase_len).                         *)
(***************************************************************************)
C14_InitError ==
    (IsInitError /\ call.code \in 300..699) =>
        /\ abort = "none"
        /\ call.ret \in {0, ENOBUFS}
        /\ call.ret = 0 =>
              LET h == Now.hdr
                  phrase == CatalogPhrase(call.code)
                  n == 4 + Len(phrase)
              IN /\ h[0] = 1 + 2 * ((stun_get_method(call.r0) \div 128) % 32)
                 /\ (h[1] \div 16) % 2 = 1
                 /\ stun_get_class(h) = STUN_ERROR
                 /\ stun_get_method(h) = stun_get_method(call.r0)
                 /\ \A i \in 8..19 : h[i] = call.r0[i]
                 /\ Len(Now.attrs) = 1
                 /\ Now.attrs[1].type = STUN_ERROR_CODE
                 /\ Now.attrs[1].off = 20
                 /\ Now.attrs[1].length = n
                 /\ Now.attrs[1].payload =
                       <<0, 0, call.code \div 100, call.code % 100>> \o phrase
                 /\ HeaderLength(Now) = 4 + n + PadLen(n)

\* 401 answered in place: 00 00 04 01 "Authorization required".
C14_Witness ==
    /\ IsInitError
    /\ call.code = 401
    /\ call.req = call.b
    /\ call.ret = 0
    /\ Len(Now.attrs[1].payload) = 26
    /\ SubSeq(Now.attrs[1].payload, 1, 5) = <<0, 0, 4, 1, "A">>
    /\ HeaderLength(Now) = 32

(***************************************************************************)
(* C15: every attribute's TLV header starts at offset 20 + mlen with mlen  *)
(* a multiple of 4 (the sum of the sizes of the attributes before it), its *)
(* payload is followed by exactly pad_len(length) bytes of value 0x20,     *)
(* which an append writes right behind the payload, and the next attribute *)
(* starts behind the padding; pad_len(n) is in 0..3 and n + pad_len(n) is  *)
(* a multiple of 4 for every 16-bit n.                                     *)
(***************************************************************************)
PadLenLaw ==
    \A n \in 0..65535 :
        /\ stun_padding(n) \in 0..3
        /\ (n + stun_padding(n)) % 4 = 0
        /\ stun_padding(n) = PadLen(n)

C15_AttrLayout ==
    /\ PadLenLaw
    /\ \A b \in Bufs : \A i \in DOMAIN msg[b].attrs :
          LET a == msg[b].attrs[i]
              mlen == SumAttrs(SubSeq(msg[b].attrs, 1, i - 1))
          IN /\ a.off = 20 + mlen
             /\ mlen % 4 = 0
             /\ (a.off + 4) % 4 = 0
             /\ a.pad = PadLen(a.length)
             /\ a.padbyte = 32
             /\ i < Len(msg[b].attrs) =>
                   msg[b].attrs[i + 1].off = a.off + 4 + a.length + a.pad
    /\ (IsAppend /\ call.ret = 0) =>
          LET a == Now.attrs[Len(Now.attrs)]
              end == a.off + 4 + a.length
          IN /\ a.length = call.len
             /\ \A w \in call.wr :
                   w[1] >= call.m0.hdr[2] * 256 + call.m0.hdr[3] + 20 =>
                       \/ w = <<a.off, a.off + 4>>
                       \/ w = <<a.off + 4, end>>
                       \/ w = <<end, end + PadLen(a.length)>>
             /\ PadLen(a.length) > 0 => <<end, end + PadLen(a.length)>> \in call.wr

\* A 5-byte string appended behind an earlier attribute: three bytes of
\* padding, header.length advanced by 12.
C15_Witness ==
    /\ IsAppend
    /\ call.op = "append_string"
    /\ call.ret = 0
    /\ call.len = 5
    /\ Len(Now.attrs) = 2
    /\ Now.attrs[2].pad = 3
    /\ Now.attrs[2].padbyte = 32
    /\ <<Now.attrs[2].off + 9, Now.attrs[2].off + 12>> \in call.wr
    /\ HeaderLength(Now) = HeaderLength(call.m0) + 12

(***************************************************************************)
(* Vocabulary of the address properties.                                   *)
(***************************************************************************)
\* The host-order IPv4 address of a, most significant byte first, read
\* from the bytes of the union.
HostOrder4(a) ==
    IF hostBE THEN <<a.u[0], a.u[1], a.u[2], a.u[3]>>
    ELSE <<a.u[3], a.u[2], a.u[1], a.u[0]>>

\* Tag, address and port of a and b agree.
SameEndpoint(a, b) ==
    /\ a.type = b.type
    /\ a.port = b.port
    /\ a.type = NICE_ADDRESS_TYPE_IPV4 => HostOrder4(a) = HostOrder4(b)
    /\ a.type = NICE_ADDRESS_TYPE_IPV6 => a.u = b.u

(***************************************************************************)
(* C16: when an IPv4 or IPv6 address a has been copied to a socket address *)
(* and an address a' is then set from that socket address, a' has the tag, *)
(* the address bytes and the port of a and nice_address_equal (a, a')      *)
(* returns true; and nice_address_equal returns true exactly when tag,     *)
(* address and port agree.                                                 *)
(***************************************************************************)
C16_RoundTrip ==
    /\ (call.op = "set_from_sockaddr" /\ sin.copied) =>
          /\ abort = "none"
          /\ sin.of.type \in {NICE_ADDRESS_TYPE_IPV4, NICE_ADDRESS_TYPE_IPV6}
          /\ SameEndpoint(sin.of, na[call.a])
          /\ nice_address_equal(sin.of, na[call.a], hostBE)
                = [ret |-> TRUE, abort |-> "none"]
    /\ (call.op = "equal" /\ abort = "none") =>
          call.ret = SameEndpoint(na[call.a], na[call.b])

\* On a little-endian host 192.168.1.1 port 3478 went through a socket
\* address, which holds both in network order, and compares equal.
C16_Witness ==
    /\ call.op = "equal"
    /\ call.ret = TRUE
    /\ ~hostBE
    /\ sin.copied
    /\ sin.of = na[1]
    /\ sin.family = AF_INET
    /\ sin.s_addr = <<192, 168, 1, 1>>
    /\ sin.port = <<13, 150>>
    /\ na[2].type = NICE_ADDRESS_TYPE_IPV4
    /\ HostOrder4(na[2]) = <<192, 168, 1, 1>>
    /\ na[2].port = 3478

(***************************************************************************)
(* C17: nice_address_set_ipv4_from_string that returns false leaves tag,   *)
(* address and port as they were; when it returns true the tag is IPv4,    *)
(* the port is as it was and, for a dotted quad a.b.c.d, the host-order    *)
(* address is a.b.c.d.  A dotted quad is accepted, a string with a         *)
(* character that is no digit, dot or space is refused.                    *)
(***************************************************************************)
DotsOf(str) == {i \in 1..Len(str) : str[i] = "."}

DecimalDigit(c) ==
    CASE c = "0" -> 0 [] c = "1" -> 1 [] c = "2" -> 2 [] c = "3" -> 3
      [] c = "4" -> 4 [] c = "5" -> 5 [] c = "6" -> 6 [] c = "7" -> 7
      [] c = "8" -> 8 [] c = "9" -> 9 [] OTHER -> 10

RECURSIVE Decimal(_)
Decimal(ds) ==
    IF ds = <<>> THEN 0
    ELSE Decimal(SubSeq(ds, 1, Len(ds) - 1)) * 10 + DecimalDigit(ds[Len(ds)])

\* The four parts of str cut at its three dots.
QuadParts(str) ==
    LET d1 == CHOOSE i \in DotsOf(str) : \A j \in DotsOf(str) : i <= j
        d3 == CHOOSE i \in DotsOf(str) : \A j \in DotsOf(str) : i >= j
        d2 == CHOOSE i \in DotsOf(str) : i # d1 /\ i # d3
    IN <<SubSeq(str, 1, d1 - 1), SubSeq(str, d1 + 1, d2 - 1),
         SubSeq(str, d2 + 1, d3 - 1), SubSeq(str, d3 + 1, Len(str))>>

IsQuad(str) ==
    /\ Cardinality(DotsOf(str)) = 3
    /\ \A k \in 1..4 :
          /\ Len(QuadParts(str)[k]) \in 1..3
          /\ \A i \in DOMAIN QuadParts(str)[k] :
                DecimalDigit(QuadParts(str)[k][i]) < 10
          /\ Decimal(QuadParts(str)[k]) <= 255

C17_FromString ==
    call.op = "set_ipv4_from_string" =>
        LET a0 == call.a0
            a1 == na[call.a]
        IN /\ abort = "none"
           /\ IF call.ret
              THEN /\ a1.type = NICE_ADDRESS_TYPE_IPV4
                   /\ a1.port = a0.port
                   /\ IsQuad(call.str) =>
                         HostOrder4(a1) = [k \in 1..4 |->
                                             Decimal(QuadParts(call.str)[k])]
              ELSE a1 = a0
           /\ IsQuad(call.str) => call.ret
           /\ (\E i \in DOMAIN call.str :
                  call.str[i] \notin {"1", "9", ".", " "}) => ~call.ret

\* "1.1.1.9x" is refused on an IPv6 address with port 3478, which stays.
C17_Witness ==
    /\ call.op = "set_ipv4_from_string"
    /\ call.str = <<"1", ".", "1", ".", "1", ".", "9", "x">>
    /\ call.ret = FALSE
    /\ call.a0.type = NICE_ADDRESS_TYPE_IPV6
    /\ call.a0.port = 3478
    /\ na[1] = call.a0

\* "1.9.1.9" is accepted on that address: 1.9.1.9, port 3478.
C17_Accepted ==
    /\ call.op = "set_ipv4_from_string"
    /\ call.str = <<"1", ".", "9", ".", "1", ".", "9">>
    /\ call.ret = TRUE
    /\ ~hostBE
    /\ call.a0.type = NICE_ADDRESS_TYPE_IPV6
    /\ na[1].type = NICE_ADDRESS_TYPE_IPV4
    /\ <<na[1].u[0], na[1].u[1], na[1].u[2], na[1].u[3]>> = <<9, 1, 9, 1>>
    /\ na[1].port = 3478

(***************************************************************************)
(* C18: nice_address_is_private on an IPv4 address returns true exactly    *)
(* when the host-order address lies in 10.0.0.0/8, 172.16.0.0/12,          *)
(* 192.168.0.0/16 or 127.0.0.0/8, whatever the port; on an IPv6 or unset   *)
(* address it fails its assertion and returns nothing.                     *)
(***************************************************************************)
InPrivateRanges(v) ==
    \/ v[1] = 10
    \/ v[1] = 172 /\ v[2] >= 16 /\ v[2] <= 31
    \/ v[1] = 192 /\ v[2] = 168
    \/ v[1] = 127

C18_IsPrivate ==
    call.op = "is_private" =>
        LET a == na[call.a]
            v == HostOrder4(a)
        IN IF a.type = NICE_ADDRESS_TYPE_IPV4
           THEN /\ abort = "none"
                /\ call.ret = InPrivateRanges(v)
                /\ v \in {<<10, 0, 0, 1>>, <<172, 16, 0, 1>>,
                          <<192, 168, 1, 1>>, <<127, 0, 0, 1>>} => call.ret
                /\ v \in {<<8, 8, 8, 8>>, <<172, 32, 0, 1>>,
                          <<192, 169, 0, 1>>} => ~call.ret
           ELSE abort = "is_private_type"

\* 172.31.255.255, the last address of 172.16.0.0/12, with port 3478.
C18_Witness ==
    /\ call.op = "is_private"
    /\ na[1].type = NICE_ADDRESS_TYPE_IPV4
    /\ HostOrder4(na[1]) = <<172, 31, 255, 255>>
    /\ na[1].port = 3478
    /\ call.ret = TRUE
    /\ abort = "none"

\* An IPv6 address: the assertion fails.
C18_Ipv6Aborts ==
    /\ call.op = "is_private"
    /\ na[1].type = NICE_ADDRESS_TYPE_IPV6
    /\ abort = "is_private_type"

(***************************************************************************)
(* C19: stun_finish_short (buf, &len, username, password, nonce, noncelen) *)
(* returns what stun_finish_long (buf, &len, NULL, username, password,     *)
(* |password|, nonce, noncelen) returns and leaves the same buffer and     *)
(* *len, and stun_finish the same as stun_finish_short with null           *)
(* credentials: they add no REALM, they add MESSAGE-INTEGRITY only for a   *)
(* non-null password and, when they succeed, for every non-null password,  *)
(* the empty one included, with a key of |password| bytes; stun_finish     *)
(* adds FINGERPRINT alone.                                                 *)
(***************************************************************************)
AddedTypes == {Added[i].type : i \in DOMAIN Added}

C19_ShortIsLong ==
    (IsFinish /\ call.entry \in {"stun_finish_short", "stun_finish"}) =>
        LET a == call.args
            r == stun_finish_long(call.m0, call.msize, NULL, a.username,
                                  a.password, a.password.len,
                                  a.nonce, a.nonce.len)
        IN /\ Now = r.msg
           /\ call.ret = r.ret
           /\ call.plen = r.plen
           /\ abort = r.abort
           /\ call.ev = r.ev
           /\ STUN_REALM \notin AddedTypes
           /\ STUN_MESSAGE_INTEGRITY \in AddedTypes => ~a.password.null
           /\ call.ret = 0 =>
                 (STUN_MESSAGE_INTEGRITY \in AddedTypes <=> ~a.password.null)
           /\ \A i \in Sha1Events : call.ev[i].keylen = a.password.len
           /\ call.entry = "stun_finish" =>
                 /\ a = [realm |-> NULL, username |-> NULL,
                         password |-> NULL, nonce |-> NULL]
                 /\ AddedTypes \subseteq {STUN_FINGERPRINT}
                 /\ call.ret = 0 =>
                       Shape(Added) = <<[type |-> STUN_FINGERPRINT, len |-> 4]>>

\* stun_finish_short with the empty password: MESSAGE-INTEGRITY is added
\* and the HMAC is keyed with zero bytes.
C19_Witness ==
    /\ IsFinish
    /\ call.entry = "stun_finish_short"
    /\ call.args.password = Ptr(0)
    /\ ~call.args.username.null
    /\ call.ret = 0
    /\ AddedTypes = {STUN_USERNAME, STUN_MESSAGE_INTEGRITY, STUN_FINGERPRINT}
    /\ \E i \in Sha1Events : call.ev[i].keylen = 0

(***************************************************************************)
(* C20: a finish call that succeeds computes the FINGERPRINT CRC as its    *)
(* last computation: after the HMAC, when there is a key, which is then in *)
(* the MESSAGE-INTEGRITY slot, and with the header length that includes    *)
(* the FINGERPRINT attribute.  The CRC covers the message from its start   *)
(* up to the 4-byte FINGERPRINT payload, and the header and every          *)
(* attribute before that payload are in the end as they were when the CRC  *)
(* was computed.  A finish call that fails computes no CRC.                *)
(***************************************************************************)
CrcEvents == {i \in DOMAIN call.ev : call.ev[i].e = "crc"}

C20_CrcSeesFinalBytes ==
    /\ (IsFinish /\ call.ret # 0) => CrcEvents = {}
    /\ (IsFinish /\ call.ret = 0) =>
          LET n == Len(call.ev)
              c == call.ev[n]
              k == Len(Now.attrs)
              last == Now.attrs[k]
          IN /\ CrcEvents = {n}
             /\ IF call.fin.key.null THEN n = 1
                ELSE /\ n = 2
                     /\ call.ev[1].e = "sha1"
                     /\ Now.attrs[k - 1].type = STUN_MESSAGE_INTEGRITY
                     /\ call.ev[1].at = Now.attrs[k - 1].off + 4
                     /\ c.msg.attrs[k - 1].payload = "hmac"
             /\ c.hl = HeaderLength(Now)
             /\ c.msg.hdr = Now.hdr
             /\ last.type = STUN_FINGERPRINT
             /\ last.length = 4
             /\ c.from = 0
             /\ c.to = last.off + 4
             /\ c.to = 20 + HeaderLength(Now) - 4
             /\ Len(c.msg.attrs) = k
             /\ \A i \in 1..(k - 1) : c.msg.attrs[i] = Now.attrs[i]
             /\ c.msg.attrs[k] = [last EXCEPT !.payload = "stale"]
             /\ last.payload = "crc"
             /\ <<c.to, c.to + 4>> \in call.wr

\* A keyed finish behind a caller's attribute: the CRC is computed over a
\* message whose MESSAGE-INTEGRITY slot holds the HMAC.
C20_Witness ==
    /\ IsFinish
    /\ call.ret = 0
    /\ ~call.fin.key.null
    /\ Len(call.m0.attrs) >= 1
    /\ Len(call.ev) = 2
    /\ call.ev[2].e = "crc"
    /\ call.ev[2].msg.attrs[Len(Now.attrs) - 1].payload = "hmac"
    /\ call.ev[2].hl = HeaderLength(call.m0) + SumLens(Expected(call.fin))

(***************************************************************************)
(* C21: stun_init_error_unknown answering a request that has unknown       *)
(* attributes gives the same result when ans is the request's buffer as    *)
(* when it is another one: on success class ERROR, the request's method    *)
(* and transaction ID and two attributes, ERROR-CODE for 420 and           *)
(* UNKNOWN-ATTRIBUTES holding the request's unknown ids in order, two      *)
(* bytes each, most significant first.  When ERROR-CODE does not fit it    *)
(* returns ENOBUFS and appends nothing; UNKNOWN-ATTRIBUTES is in the       *)
(* message only on success.                                                *)
(***************************************************************************)
IsInitErrorUnknown == call.op = "init_error_unknown"

\* The ids of the unknown attributes a response must report for req.
RECURSIVE ReportedIds(_)
ReportedIds(as) ==
    IF as = <<>> THEN <<>>
    ELSE (IF Head(as).type < 32768 /\ Head(as).type \notin KnownAttrIds
          THEN <<Head(as).type>> ELSE <<>>) \o ReportedIds(Tail(as))

RECURSIVE BigEndian16(_)
BigEndian16(ids) ==
    IF ids = <<>> THEN <<>>
    ELSE <<Head(ids) \div 256, Head(ids) % 256>> \o BigEndian16(Tail(ids))

C21_ErrorUnknown ==
    (/\ IsInitErrorUnknown
     /\ stun_get_class(call.req0.hdr) = STUN_REQUEST
     /\ ReportedIds(call.req0.attrs) # <<>>) =>
        LET req == call.req0
            ids == ReportedIds(req.attrs)
            phrase == CatalogPhrase(420)
            n == 4 + Len(phrase)
            cap == Min(call.msize, STUN_MAXMSG)
        IN /\ abort = "none"
           /\ call.ret \in {0, ENOBUFS}
           /\ Now = stun_init_error_unknown(NoMsg, call.msize, req, FALSE,
                                            hostBE).msg
           /\ stun_get_class(Now.hdr) = STUN_ERROR
           /\ stun_get_method(Now.hdr) = stun_get_method(req.hdr)
           /\ \A i \in 8..19 : Now.hdr[i] = req.hdr[i]
           /\ call.ret = 0 =>
                 /\ Len(Now.attrs) = 2
                 /\ Now.attrs[1].type = STUN_ERROR_CODE
                 /\ Now.attrs[1].payload = <<0, 0, 4, 20>> \o phrase
                 /\ Now.attrs[2].type = STUN_UNKNOWN_ATTRIBUTES
                 /\ Now.attrs[2].off = 20 + 4 + n + PadLen(n)
                 /\ Now.attrs[2].length = 2 * Len(ids)
                 /\ Now.attrs[2].payload = BigEndian16(ids)
                 /\ HeaderLength(Now) = SumAttrs(Now.attrs)
           /\ 24 + n > cap => (call.ret = ENOBUFS /\ Now.attrs = <<>>)
           /\ call.ret = ENOBUFS =>
                 \A i \in DOMAIN Now.attrs :
                    Now.attrs[i].type # STUN_UNKNOWN_ATTRIBUTES

\* A request with the unknown attributes 0x7f01 and 0x0102 answered in
\* place on a little-endian host: the payload is 7f 01 01 02.
C21_Witness ==
    /\ IsInitErrorUnknown
    /\ call.same
    /\ abort = "none"
    /\ call.ret = 0
    /\ Len(call.req0.attrs) = 2
    /\ Len(Now.attrs) = 2
    /\ Now.attrs[2].payload = <<127, 1, 1, 2>>

\* ERROR-CODE fits and UNKNOWN-ATTRIBUTES does not.
C21_SecondFails ==
    /\ IsInitErrorUnknown
    /\ abort = "none"
    /\ call.ret = ENOBUFS
    /\ Len(Now.attrs) = 1

(***************************************************************************)
(* C22: a finish call succeeds exactly when the finished message fits the  *)
(* declared size: 20 + header.length with every requested finish attribute *)
(* and its padding added is at most the minimum of the length passed in   *)
(* and STUN_MAXMSG.  On success the length written back is that size and   *)
(* does not exceed the length passed in; a finish that fails may have      *)
(* appended REALM, USERNAME or NONCE.                                      *)
(***************************************************************************)
FinishedSize == 20 + HeaderLength(call.m0) + SumLens(Expected(call.fin))

C22_FinishIffFits ==
    IsFinish =>
        /\ abort = "none"
        /\ call.ret = 0 <=> FinishedSize <= Min(call.msize, STUN_MAXMSG)
        /\ call.ret = 0 =>
              /\ call.plen = FinishedSize
              /\ call.plen <= call.msize
              /\ 20 + HeaderLength(Now) = FinishedSize
        /\ call.ret # 0 => call.ret = ENOBUFS

\* USERNAME passed the check of its own append in a buffer the finished
\* message does not fit, and the finish call failed.
C22_Witness ==
    /\ IsFinish
    /\ call.ret = ENOBUFS
    /\ Len(Added) >= 1
    /\ HeaderLength(call.m0) + 24 + Added[1].length <= call.msize
    /\ FinishedSize > call.msize
    /\ call.msize < STUN_MAXMSG

\* A finish that succeeds with all five attributes.
C22_Fits ==
    /\ IsFinish
    /\ call.ret = 0
    /\ Len(Added) = 5
    /\ call.plen = FinishedSize

(***************************************************************************)
(* C23: the 16-bit header length never wraps.  An append that passes the   *)
(* space check has mlen + 4 + length + pad_len(length) <= 65535 and        *)
(* length < 0xffff, so the assertion on the length never fails and the     *)
(* length stored in the header is the byte count of the attributes, for    *)
(* any buffer size and length, buffers larger than STUN_MAXMSG included.   *)
(***************************************************************************)
C23_NoWrap ==
    /\ abort # "append_length"
    /\ \A b \in Bufs :
          msg[b].init =>
              /\ SumAttrs(msg[b].attrs) <= 65535
              /\ HeaderLength(msg[b]) = SumAttrs(msg[b].attrs)
              /\ \A i \in DOMAIN msg[b].attrs :
                    /\ msg[b].attrs[i].length < 65535
                    /\ msg[b].attrs[i].off - 20 + AttrSize(msg[b].attrs[i]) <= 65535
    /\ IsAppend =>
          LET h0 == HeaderLength(call.m0)
              n == call.len
          IN IF call.ret = 0
             THEN /\ n < 65535
                  /\ h0 + 4 + n + PadLen(n) <= 65535
                  /\ HeaderLength(Now) = h0 + 4 + n + PadLen(n)
             ELSE /\ call.ret = ENOBUFS
                  /\ Now = call.m0
                  /\ h0 + 24 + n > Min(call.msize, STUN_MAXMSG)

\* The longest string that fits an empty message in a buffer larger than
\* STUN_MAXMSG: header.length becomes 65496.
C23_Witness ==
    /\ IsAppend
    /\ call.ret = 0
    /\ call.msize > STUN_MAXMSG
    /\ call.len = 65491
    /\ HeaderLength(Now) = 65496

\* A string of 0xffff bytes is refused by the space check.
C23_Refused ==
    /\ IsAppend
    /\ call.len = 65535
    /\ call.msize > STUN_MAXMSG
    /\ call.ret = ENOBUFS
    /\ abort = "none"

====
